---------------------------- MODULE Spec2Model ----------------------------
(***************************************************************************)
(* Model of the analytics core of the quantitative research dashboard:     *)
(*   - quant_a/analysis_quanta.py : single-asset backtests (momentum, ADX) *)
(*   - quant_b/analysis_quantb.py : multi-asset portfolio backtest         *)
(*                                                                         *)
(* pandas tables are modelled column by column: a column is a sequence     *)
(* over the bars (rows) of the table.  A float is an exact rational        *)
(* <<num, den>> in lowest terms with den > 0; <<0,0>> is NaN and           *)
(* <<1,0>>, <<-1,0>> are +inf, -inf (IEEE division by zero).               *)
(***************************************************************************)
EXTENDS Integers, Sequences, FiniteSets, TLC

VARIABLES
    pc,            \* which entry point has run on the inputs
    df,            \* quant A: the price table, one record [Low, Close, High] per bar
    params,        \* quant A: the arguments of the backtest call
    df_strat,      \* quant A: the working table at the time dropna is applied
    cum_strat,     \* quant A: the returned Cumulative_Value series [index, values]
    returns,       \* quant B: the return table [index, rows]
    request,       \* quant B: [weight_mode, user_weights, rebalance]
    rebal_log,     \* quant B: the dates at which the loop assigned the weights
    backtest,      \* quant B: the returned tuple [port_rets, port_val, weights_ts]
    clock,         \* cache: the time in seconds
    generation,    \* cache: the number of st.cache_data.clear() calls so far
    data_caches,   \* cache: per cache object, function and key, the stored entry
    value_locks,   \* cache: per cache object, function and key, the session computing
    call,          \* cache: per session, the position of its script run
    downloads,     \* cache: the yf.download calls made, in the order they started
    run,           \* pages: the widget values, locals and position of a script run
    screen,        \* pages: the elements the script run has rendered
    report_run,    \* report: the position, frames and lines of generate_report
    report_file,   \* report: the file reports/daily_report_<today>.txt
    parsed_data,   \* report: what the Daily Reports page parsed from the file
    series,        \* metrics: the series the metric functions are applied to
    metrics        \* metrics: what each metric function returned

vars == <<pc, df, params, df_strat, cum_strat,
          returns, request, rebal_log, backtest,
          clock, generation, data_caches, value_locks, call, downloads,
          run, screen, report_run, report_file, parsed_data, series, metrics>>

quantA_vars == <<df, params, df_strat, cum_strat>>
quantB_vars == <<returns, request, rebal_log, backtest>>
cache_vars == <<clock, generation, data_caches, value_locks, call, downloads>>
page_vars == <<run, screen>>
report_vars == <<report_run, report_file, parsed_data>>
metrics_vars == <<series, metrics>>

-----------------------------------------------------------------------------
(* Bounds of the model *)

\* Longest price series (bars) given to a single-asset backtest.
MaxLen == 5

\* Largest window (SMA windows, Wilder smoothing period).
MaxWindow == 3

\* Largest number of dates in the return table of the portfolio backtest.
MaxDates == 3

-----------------------------------------------------------------------------
(* Float arithmetic (numpy float64 modelled as exact rationals) *)

NaN == <<0, 0>>
Zero == <<0, 1>>
One == <<1, 1>>
Num(i) == <<i, 1>>

Abs(i) == IF i < 0 THEN -i ELSE i
Sign(i) == IF i < 0 THEN -1 ELSE IF i > 0 THEN 1 ELSE 0

RECURSIVE GCD(_, _)
GCD(a, b) == IF b = 0 THEN a ELSE GCD(b, a % b)

\* <<n, d>> in lowest terms, d # 0
Norm(n, d) ==
    LET g == GCD(Abs(n), Abs(d))
    IN  IF d < 0 THEN <<(-n) \div g, (-d) \div g>> ELSE <<n \div g, d \div g>>

IsNaN(x) == x = NaN
IsFinite(x) == x[2] # 0

FNeg(x) == <<-x[1], x[2]>>

FAdd(x, y) ==
    IF IsNaN(x) \/ IsNaN(y) THEN NaN
    ELSE IF x[2] = 0 \/ y[2] = 0
         THEN <<Sign((IF x[2] = 0 THEN x[1] ELSE 0) + (IF y[2] = 0 THEN y[1] ELSE 0)), 0>>
    ELSE LET g == GCD(x[2], y[2])
         IN  Norm(x[1] * (y[2] \div g) + y[1] * (x[2] \div g), (x[2] \div g) * y[2])

FSub(x, y) == FAdd(x, FNeg(y))

FMul(x, y) ==
    IF IsNaN(x) \/ IsNaN(y) THEN NaN
    ELSE IF x[2] = 0 \/ y[2] = 0 THEN <<Sign(x[1]) * Sign(y[1]), 0>>
    ELSE LET g1 == GCD(Abs(x[1]), y[2])
             g2 == GCD(Abs(y[1]), x[2])
         IN  <<(x[1] \div g1) * (y[1] \div g2), (x[2] \div g2) * (y[2] \div g1)>>

\* 1/y: 1/0 = inf, 1/inf = 0
FRecip(y) ==
    IF IsNaN(y) THEN NaN
    ELSE IF y[2] = 0 THEN Zero
    ELSE IF y[1] = 0 THEN <<1, 0>>
    ELSE IF y[1] < 0 THEN <<-y[2], -y[1]>> ELSE <<y[2], y[1]>>

\* x / y: 0/0 = NaN, x/0 = +-inf
FDiv(x, y) == FMul(x, FRecip(y))

FAbs(x) == <<Abs(x[1]), x[2]>>

\* x > y; any comparison with NaN is False
FGt(x, y) == ~IsNaN(x) /\ ~IsNaN(y) /\ x[1] * y[2] > y[1] * x[2]

FGe(x, y) == ~IsNaN(x) /\ ~IsNaN(y) /\ x[1] * y[2] >= y[1] * x[2]

-----------------------------------------------------------------------------
(* pandas / numpy column operations *)

\* a column given as a function over 1..n, as the sequence of its n values
RECURSIVE AsColumn(_, _)
AsColumn(f, n) == IF n = 0 THEN << >> ELSE Append(AsColumn(f, n - 1), f[n])

\* mutant of shift: the shift goes the wrong way, Series.shift(-1)
shift_backwards(s) ==
    AsColumn([t \in 1..Len(s) |-> IF t = Len(s) THEN NaN ELSE s[t+1]], Len(s))

\* Series.shift(1)
shift(s) == AsColumn([t \in 1..Len(s) |-> IF t = 1 THEN NaN ELSE s[t-1]], Len(s))

\* Series.pct_change()
pct_change(s) ==
    AsColumn([t \in 1..Len(s) |-> IF t = 1 THEN NaN ELSE FSub(FDiv(s[t], s[t-1]), One)],
             Len(s))

RECURSIVE SumRange(_, _, _)
SumRange(s, lo, hi) == IF lo > hi THEN Zero ELSE FAdd(SumRange(s, lo, hi - 1), s[hi])

\* mutant of rolling_mean: rolling(window=w, min_periods=1), the mean of the
\* observations there are
rolling_mean_min_periods_1(s, w) ==
    AsColumn([t \in 1..Len(s) |->
                 IF t < w THEN FDiv(SumRange(s, 1, t), Num(t))
                 ELSE FDiv(SumRange(s, t - w + 1, t), Num(w))],
             Len(s))

\* Series.rolling(window=w).mean(): NaN until w observations are in the window
rolling_mean(s, w) ==
    AsColumn([t \in 1..Len(s) |->
                 IF t < w THEN NaN ELSE FDiv(SumRange(s, t - w + 1, t), Num(w))],
             Len(s))

\* one step of Series.ewm(alpha=1/period, adjust=False).mean(): from the average
\* `weighted` after the row before, whose weight has decayed to old_wt, to the
\* state <<weighted, old_wt>> after a row holding cur
EwmUpdate(weighted, old_wt, cur, alpha) ==
    IF IsNaN(weighted) THEN <<cur, One>>
    ELSE IF IsNaN(cur) THEN <<weighted, old_wt>>
    ELSE <<FDiv(FAdd(FMul(old_wt, weighted), FMul(alpha, cur)), FAdd(old_wt, alpha)), One>>

EwmNext(prev, cur, alpha) ==
    EwmUpdate(prev[1], FMul(prev[2], FSub(One, alpha)), cur, alpha)

\* the states after rows 1..t, from the states after rows 1..t-1
EwmAppend(before, s, period, t) ==
    Append(before, IF t = 1 THEN <<s[1], One>>
                   ELSE EwmNext(before[t-1], s[t], <<1, period>>))

RECURSIVE EwmStates(_, _, _)
EwmStates(s, period, t) ==
    IF t = 0 THEN << >> ELSE EwmAppend(EwmStates(s, period, t - 1), s, period, t)

\* the averages held by a sequence of states
EwmMean(states) == AsColumn([t \in 1..Len(states) |-> states[t][1]], Len(states))

\* wilder_smooth(series, period) = series.ewm(alpha=1/period, adjust=False).mean()
wilder_smooth(s, period) == EwmMean(EwmStates(s, period, Len(s)))

\* the rows of a table (a record of columns) that hold no NaN, in order
RECURSIVE KeptUpTo(_, _)
KeptUpTo(table, t) ==
    IF t = 0 THEN << >>
    ELSE IF \A c \in DOMAIN table : ~IsNaN(table[c][t])
         THEN Append(KeptUpTo(table, t - 1), t)
         ELSE KeptUpTo(table, t - 1)

\* DataFrame.dropna(): the index that remains
dropna_index(table, n) == KeptUpTo(table, n)

\* (1 + r).cumprod() over the rows that remain, as a series [index, values]
CumprodAppend(before, growth, k) ==
    Append(before, IF k = 1 THEN growth ELSE FMul(before[k-1], growth))

RECURSIVE CumprodUpTo(_, _, _)
CumprodUpTo(r, index, k) ==
    IF k = 0 THEN << >>
    ELSE CumprodAppend(CumprodUpTo(r, index, k - 1), FAdd(One, r[index[k]]), k)

cumprod_series(r, index) == [index |-> index, values |-> CumprodUpTo(r, index, Len(index))]

-----------------------------------------------------------------------------
(* quant_a/analysis_quanta.py: momentum (SMA crossover) backtest *)

\* a column of the price table as floats
Column(table, name) ==
    AsColumn([t \in 1..Len(table) |-> Num(table[t][name])], Len(table))

\* mutant of momentum_signal: np.where(Short_SMA <= Long_SMA, 0.0, 1.0), which is
\* long while an average is still undefined
momentum_signal_undefined_long(short_sma, long_sma) ==
    AsColumn([t \in 1..Len(short_sma) |->
                 IF FGe(long_sma[t], short_sma[t]) THEN Zero ELSE One],
             Len(short_sma))

\* np.where(Short_SMA > Long_SMA, 1.0, 0.0)
momentum_signal(short_sma, long_sma) ==
    AsColumn([t \in 1..Len(short_sma) |->
                 IF FGt(short_sma[t], long_sma[t]) THEN One ELSE Zero],
             Len(short_sma))

\* mutant of strategy_returns: the lag is missing, Returns * Signal
strategy_returns_unlagged(rets, signal) ==
    AsColumn([t \in 1..Len(rets) |-> FMul(rets[t], signal[t])], Len(rets))

\* Returns * Signal.shift(1)
strategy_returns(rets, signal) ==
    LET lagged == shift(signal)
    IN  AsColumn([t \in 1..Len(rets) |-> FMul(rets[t], lagged[t])], Len(rets))

\* the table calculate_momentum_strategy_performance holds when it calls dropna
momentum_columns(close, short_window, long_window) ==
    [Close |-> close, Returns |-> pct_change(close),
     Short_SMA |-> rolling_mean(close, short_window),
     Long_SMA |-> rolling_mean(close, long_window)]

momentum_with_signal(t) ==
    [Close |-> t.Close, Returns |-> t.Returns, Short_SMA |-> t.Short_SMA,
     Long_SMA |-> t.Long_SMA, Signal |-> momentum_signal(t.Short_SMA, t.Long_SMA)]

momentum_with_strategy_returns(t) ==
    [Close |-> t.Close, Returns |-> t.Returns, Short_SMA |-> t.Short_SMA,
     Long_SMA |-> t.Long_SMA, Signal |-> t.Signal,
     Strategy_Returns |-> strategy_returns(t.Returns, t.Signal)]

momentum_table(close, short_window, long_window) ==
    momentum_with_strategy_returns(
        momentum_with_signal(momentum_columns(close, short_window, long_window)))

\* dropna, then Cumulative_Value = (1 + Strategy_Returns).cumprod()
cumulative_value(table) ==
    cumprod_series(table.Strategy_Returns, dropna_index(table, Len(table.Close)))

-----------------------------------------------------------------------------
(* quant_a/analysis_quanta.py: ADX components and ADX backtest *)

\* DataFrame.max(axis=1) of one row: NaN entries are skipped
MaxSkipNaN(m, v) ==
    IF IsNaN(v) THEN m ELSE IF IsNaN(m) \/ FGt(v, m) THEN v ELSE m

RECURSIVE RowMaxUpTo(_, _)
RowMaxUpTo(row, k) ==
    IF k = 0 THEN NaN ELSE MaxSkipNaN(RowMaxUpTo(row, k - 1), row[k])

row_max(row) == RowMaxUpTo(row, Len(row))

\* TR = max(High - Low, |High - Prev_Close|, |Low - Prev_Close|)
TR(high, low, prev_close) ==
    AsColumn([t \in 1..Len(high) |->
        row_max(<<FSub(high[t], low[t]),
                  FAbs(FSub(high[t], prev_close[t])),
                  FAbs(FSub(low[t], prev_close[t]))>>)], Len(high))

true_range(high, low, close) == TR(high, low, shift(close))

\* +DM: the rise of the high when it exceeds the fall of the low, else 0
DM_plus(high, low, ph, pl) ==
    AsColumn([t \in 1..Len(high) |->
        IF FGt(high[t], ph[t]) /\ FGt(FSub(high[t], ph[t]), FSub(pl[t], low[t]))
        THEN FSub(high[t], ph[t]) ELSE Zero], Len(high))

dm_plus(high, low) == DM_plus(high, low, shift(high), shift(low))

\* -DM: the fall of the low when it exceeds the rise of the high, else 0
DM_minus(high, low, ph, pl) ==
    AsColumn([t \in 1..Len(high) |->
        IF FGt(pl[t], low[t]) /\ FGt(FSub(pl[t], low[t]), FSub(high[t], ph[t]))
        THEN FSub(pl[t], low[t]) ELSE Zero], Len(high))

dm_minus(high, low) == DM_minus(high, low, shift(high), shift(low))

\* (DM_Smooth / TR_Smooth) * 100
directional_indicator(dm_smooth, tr_smooth) ==
    AsColumn([t \in 1..Len(dm_smooth) |->
                 FMul(FDiv(dm_smooth[t], tr_smooth[t]), Num(100))],
             Len(dm_smooth))

\* DX = (|DI+ - DI-| / (DI+ + DI-)) * 100
directional_index(di_plus, di_minus) ==
    AsColumn([t \in 1..Len(di_plus) |->
        FMul(FDiv(FAbs(FSub(di_plus[t], di_minus[t])), FAdd(di_plus[t], di_minus[t])),
             Num(100))], Len(di_plus))

\* calculate_adx_components, statement by statement; d is the frame so far
adx_price_columns(table) ==
    [Close |-> Column(table, "Close"), High |-> Column(table, "High"),
     Low |-> Column(table, "Low")]

adx_with_movement(d) ==
    [Close |-> d.Close, Returns |-> pct_change(d.Close),
     TR |-> true_range(d.High, d.Low, d.Close),
     DM_plus |-> dm_plus(d.High, d.Low), DM_minus |-> dm_minus(d.High, d.Low)]

adx_with_smoothing(d, window) ==
    [Close |-> d.Close, Returns |-> d.Returns,
     TR_Smooth |-> wilder_smooth(d.TR, window),
     DM_plus_Smooth |-> wilder_smooth(d.DM_plus, window),
     DM_minus_Smooth |-> wilder_smooth(d.DM_minus, window)]

adx_with_indicators(d) ==
    [Close |-> d.Close, Returns |-> d.Returns,
     DI_plus |-> directional_indicator(d.DM_plus_Smooth, d.TR_Smooth),
     DI_minus |-> directional_indicator(d.DM_minus_Smooth, d.TR_Smooth)]

adx_with_index(d) ==
    [Close |-> d.Close, Returns |-> d.Returns, DI_plus |-> d.DI_plus,
     DI_minus |-> d.DI_minus, DX |-> directional_index(d.DI_plus, d.DI_minus)]

adx_with_average(d, window) ==
    [Close |-> d.Close, Returns |-> d.Returns, ADX |-> wilder_smooth(d.DX, window),
     DI_plus |-> d.DI_plus, DI_minus |-> d.DI_minus]

\* the columns calculate_adx_components returns
calculate_adx_components(table, window) ==
    adx_with_average(
        adx_with_index(
            adx_with_indicators(
                adx_with_smoothing(adx_with_movement(adx_price_columns(table)), window))),
        window)

\* one row of the caller's frame after calculate_adx_components: the columns
\* the function assigns to the frame it was given, next to Close, High, Low
adx_frame_row(bar, prev_close, mv, sm, ix, av, t) ==
    [Low |-> bar.Low, Close |-> bar.Close, High |-> bar.High,
     Returns |-> mv.Returns[t], Prev_Close |-> prev_close,
     TR1 |-> FSub(Num(bar.High), Num(bar.Low)),
     TR2 |-> FAbs(FSub(Num(bar.High), prev_close)),
     TR3 |-> FAbs(FSub(Num(bar.Low), prev_close)),
     TR |-> mv.TR[t], DM_plus |-> mv.DM_plus[t], DM_minus |-> mv.DM_minus[t],
     TR_Smooth |-> sm.TR_Smooth[t], DM_plus_Smooth |-> sm.DM_plus_Smooth[t],
     DM_minus_Smooth |-> sm.DM_minus_Smooth[t],
     DI_plus |-> ix.DI_plus[t], DI_minus |-> ix.DI_minus[t], DX |-> ix.DX[t],
     ADX |-> av.ADX[t]]

adx_frame_rows(table, mv, sm, ix, av) ==
    AsColumn([t \in 1..Len(table) |->
                 adx_frame_row(table[t], shift(Column(table, "Close"))[t],
                               mv, sm, ix, av, t)], Len(table))

adx_frame_indexed(table, window, mv, sm, ix) ==
    adx_frame_rows(table, mv, sm, ix, adx_with_average(ix, window))

adx_frame_smoothed(table, window, mv, sm) ==
    adx_frame_indexed(table, window, mv, sm, adx_with_index(adx_with_indicators(sm)))

adx_frame_moved(table, window, mv) ==
    adx_frame_smoothed(table, window, mv, adx_with_smoothing(mv, window))

\* the frame of the caller after calculate_adx_components(df, window): a
\* DataFrame argument is not copied, every df[...] = ... adds a column to it
adx_frame(table, window) ==
    adx_frame_moved(table, window, adx_with_movement(adx_price_columns(table)))

\* mutant of signal_trigger: the strength filter is applied to the exit as well
signal_trigger_filtered_exit(adx, di_plus, di_minus, adx_threshold) ==
    AsColumn([t \in 1..Len(adx) |->
        IF FGt(di_plus[t], di_minus[t]) /\ FGt(adx[t], Num(adx_threshold)) THEN One
        ELSE IF FGt(di_minus[t], di_plus[t]) /\ FGt(adx[t], Num(adx_threshold)) THEN Zero
        ELSE NaN], Len(adx))

\* np.select([buy_signal & trend_filter, sell_signal], [1.0, 0.0], default=np.nan)
signal_trigger(adx, di_plus, di_minus, adx_threshold) ==
    AsColumn([t \in 1..Len(adx) |->
        IF FGt(di_plus[t], di_minus[t]) /\ FGt(adx[t], Num(adx_threshold)) THEN One
        ELSE IF FGt(di_minus[t], di_plus[t]) THEN Zero
        ELSE NaN], Len(adx))

\* Series.ffill().fillna(0.0)
RECURSIVE FfillAt(_, _)
FfillAt(s, t) ==
    IF t = 0 THEN NaN
    ELSE IF ~IsNaN(s[t]) THEN s[t] ELSE FfillAt(s, t - 1)

\* mutant of ffill_fillna0: the forward fill is missing, Series.fillna(0.0)
fillna0_without_ffill(s) ==
    AsColumn([t \in 1..Len(s) |-> IF IsNaN(s[t]) THEN Zero ELSE s[t]], Len(s))

\* Series.fillna(0.0) of one value
fillna0(v) == IF IsNaN(v) THEN Zero ELSE v

ffill_fillna0(s) == AsColumn([t \in 1..Len(s) |-> fillna0(FfillAt(s, t))], Len(s))

\* calculate_adx_strategy_performance, statement by statement, up to its dropna
adx_with_trigger(c, adx_threshold) ==
    [Close |-> c.Close, Returns |-> c.Returns, ADX |-> c.ADX,
     DI_plus |-> c.DI_plus, DI_minus |-> c.DI_minus,
     Signal_Trigger |-> signal_trigger(c.ADX, c.DI_plus, c.DI_minus, adx_threshold)]

adx_with_signal(c) ==
    [Close |-> c.Close, Returns |-> c.Returns, ADX |-> c.ADX,
     DI_plus |-> c.DI_plus, DI_minus |-> c.DI_minus,
     Signal_Trigger |-> c.Signal_Trigger, Signal |-> ffill_fillna0(c.Signal_Trigger)]

adx_with_strategy_returns(c) ==
    [Close |-> c.Close, Returns |-> c.Returns, ADX |-> c.ADX,
     DI_plus |-> c.DI_plus, DI_minus |-> c.DI_minus,
     Signal_Trigger |-> c.Signal_Trigger, Signal |-> c.Signal,
     Strategy_Returns |-> strategy_returns(c.Returns, c.Signal)]

\* the table calculate_adx_strategy_performance holds when it calls dropna
adx_table(table, window, adx_threshold) ==
    adx_with_strategy_returns(
        adx_with_signal(
            adx_with_trigger(calculate_adx_components(table, window), adx_threshold)))

-----------------------------------------------------------------------------
(* The regime classifier of the single-asset page *)

\* Series.shift(period)
shift_by(s, period) ==
    AsColumn([t \in 1..Len(s) |-> IF t <= period THEN NaN ELSE s[t - period]], Len(s))

\* Series.diff().abs()
abs_diff(s) ==
    AsColumn([t \in 1..Len(s) |-> IF t = 1 THEN NaN ELSE FAbs(FSub(s[t], s[t-1]))], Len(s))

\* Series.rolling(window=w).sum(): NaN until the window holds w observations
\* that are not NaN
rolling_sum(s, w) ==
    AsColumn([t \in 1..Len(s) |->
                 IF t < w \/ \E k \in (t - w + 1)..t : IsNaN(s[k]) THEN NaN
                 ELSE SumRange(s, t - w + 1, t)],
             Len(s))

\* change = np.abs(price_series - price_series.shift(period))
kaufman_change(s, period) ==
    AsColumn([t \in 1..Len(s) |-> FAbs(FSub(s[t], shift_by(s, period)[t]))], Len(s))

\* er = change / volatility, a column
kaufman_er(s, period) ==
    AsColumn([t \in 1..Len(s) |->
                 FDiv(kaufman_change(s, period)[t], rolling_sum(abs_diff(s), period)[t])],
             Len(s))

\* calculate_kaufman_efficiency_ratio(price_series, period) = er.iloc[-1]
calculate_kaufman_efficiency_ratio(price_series, period) ==
    kaufman_er(price_series, period)[Len(price_series)]

\* the threshold of run_quant_a, 0.3
ErThreshold == <<3, 10>>

\* mutant of reco_strat: the threshold itself counts as trending, er >= 0.3
reco_strat_at_or_above(er) ==
    IF FGe(er, ErThreshold) THEN "Momentum (Trend)" ELSE "ADX (Trend Strength)"

\* reco_strat = "Momentum (Trend)" if er > 0.3 else "ADX (Trend Strength)"
reco_strat(er) ==
    IF FGt(er, ErThreshold) THEN "Momentum (Trend)" ELSE "ADX (Trend Strength)"

\* reco_index = 0 if er > 0.3 else 1
reco_index(er) == IF FGt(er, ErThreshold) THEN 0 ELSE 1

\* the analysis of run_quant_a with the ratio already computed
regime(frame, period, er) ==
    [strategy |-> "kaufman", period |-> period, er |-> er,
     reco_strat |-> reco_strat(er), reco_index |-> reco_index(er), frame |-> frame]

-----------------------------------------------------------------------------
(* Inputs of the single-asset backtests *)

PriceLevels == {1, 2}

\* one bar of positive prices with Low <= Close <= High
Bars == {b \in [Low : PriceLevels, Close : PriceLevels, High : PriceLevels] :
            b.Low <= b.Close /\ b.Close <= b.High}

RECURSIVE SeqsOfLen(_, _)
SeqsOfLen(S, n) ==
    IF n = 0 THEN {<< >>}
    ELSE {Append(s, x) : s \in SeqsOfLen(S, n - 1), x \in S}

PriceTables == UNION {SeqsOfLen(Bars, n) : n \in 1..MaxLen}

\* adx_threshold: the default of the function and the upper end of the UI slider
Thresholds == {25, 50}

NoSeries == [index |-> << >>, values |-> << >>]
NoTable == [Close |-> << >>]
NoParams == [strategy |-> "none"]

NoRequest == [weight_mode |-> "none"]
NoReturns == [index |-> << >>, rows |-> << >>]
NoBacktest == [port_rets |-> "none"]

\* a price table has been loaded; nothing has been computed yet
InitQuantA ==
    /\ pc = "input"
    /\ df \in PriceTables
    /\ params = NoParams
    /\ df_strat = NoTable
    /\ cum_strat = NoSeries
    /\ returns = NoReturns
    /\ request = NoRequest
    /\ rebal_log = << >>
    /\ backtest = NoBacktest
    /\ clock = 0
    /\ generation = 0
    /\ data_caches = << >>
    /\ value_locks = << >>
    /\ call = << >>
    /\ downloads = << >>
    /\ run = << >>
    /\ screen = << >>
    /\ report_run = << >>
    /\ report_file = << >>
    /\ parsed_data = << >>
    /\ series = << >>
    /\ metrics = << >>

\* calculate_momentum_strategy_performance(df['Close'], short_window, long_window),
\* with the long window above the short one as the page's sliders give them
RunMomentum ==
    /\ pc = "input"
    /\ \E short_window \in 1..MaxWindow : \E long_window \in (short_window+1)..MaxWindow :
          /\ params' = [strategy |-> "momentum", short_window |-> short_window,
                        long_window |-> long_window, frame |-> df]
          /\ df_strat' = momentum_table(Column(df, "Close"), short_window, long_window)
    /\ cum_strat' = cumulative_value(df_strat')
    /\ pc' = "momentum"
    /\ UNCHANGED df

\* calculate_adx_strategy_performance(df, window, adx_threshold)
RunADX ==
    /\ pc = "input"
    /\ \E window \in 2..MaxWindow, adx_threshold \in Thresholds :
          /\ params' = [strategy |-> "adx", window |-> window,
                        adx_threshold |-> adx_threshold, frame |-> df]
          /\ df_strat' = adx_table(df, window, adx_threshold)
          /\ df' = adx_frame(df, window)
    /\ cum_strat' = cumulative_value(df_strat')
    /\ pc' = "adx"

-----------------------------------------------------------------------------
(* quant_b/analysis_quantb.py: weights *)

\* the columns of the return table (the default asset list)
Tickers == <<"AAPL", "MSFT", "GOOGL">>

RECURSIVE RowSumUpTo(_, _)
RowSumUpTo(row, k) == IF k = 0 THEN Zero ELSE FAdd(RowSumUpTo(row, k - 1), row[k])

\* ndarray.sum() / DataFrame.sum(axis=1) of one row
row_sum(row) == RowSumUpTo(row, Len(row))

\* mutant of clip0: negative weights are not clamped
clip0_missing(w) == w

\* np.clip(w, 0.0, None)
clip0(w) == AsColumn([i \in 1..Len(w) |-> IF FGt(Zero, w[i]) THEN Zero ELSE w[i]], Len(w))

\* mutant of _normalize_weights: the guard on a sum <= 0 is missing
_normalize_weights_unguarded(w) ==
    LET clipped == clip0(w)
        s == row_sum(clipped)
    IN  AsColumn([i \in 1..Len(w) |-> FDiv(clipped[i], s)], Len(w))

_normalize_weights(w) ==
    LET clipped == clip0(w)
        s == row_sum(clipped)
    IN  IF FGe(Zero, s) THEN clipped
        ELSE AsColumn([i \in 1..Len(w) |-> FDiv(clipped[i], s)], Len(w))

\* np.ones(n) / n
_equal_weights(n) == AsColumn([i \in 1..n |-> FDiv(One, Num(n))], n)

\* user_w.get(t, 0.0) for every ticker, then normalized
_custom_weights(tickers, user_w) ==
    _normalize_weights(AsColumn([i \in 1..Len(tickers) |->
        IF tickers[i] \in DOMAIN user_w THEN Num(user_w[tickers[i]]) ELSE Zero],
        Len(tickers)))

-----------------------------------------------------------------------------
(* The calendar: day 1 is Monday 2024-01-01 *)

\* whether day d is a Sunday
IsSunday(d) == d % 7 = 0

\* resample("W"): a date falls in the bin labelled by the Sunday that ends its week
WeekLabel(d) == IF IsSunday(d) THEN d ELSE d + 7 - (d % 7)

\* resample("M"): a date falls in the bin labelled by the last day of its month
MonthLabel(d) == IF d <= 31 THEN 31 ELSE IF d <= 60 THEN 60 ELSE 91

\* the first day of the calendar week (Monday) and month of day d
WeekStart(d) == WeekLabel(d) - 6
MonthStart(d) == IF d <= 31 THEN 1 ELSE IF d <= 60 THEN 32 ELSE 61

-----------------------------------------------------------------------------
(* quant_b/analysis_quantb.py: rebalance schedule and portfolio backtest *)

RECURSIVE SortedSeq(_)
SortedSeq(S) ==
    IF S = {} THEN << >>
    ELSE LET m == CHOOSE x \in S : \A y \in S : x <= y
         IN  <<m>> \o SortedSeq(S \ {m})

Range(s) == {s[i] : i \in 1..Len(s)}

\* mutant of _rebalance_dates: "none" is not told apart and is resampled by month
_rebalance_dates_none_resampled(index, freq) ==
    IF freq = "W" THEN SortedSeq({WeekLabel(d) : d \in Range(index)})
    ELSE SortedSeq({MonthLabel(d) : d \in Range(index)})

_rebalance_dates(index, freq) ==
    IF freq = "none" THEN <<index[1]>>
    ELSE IF freq = "W" THEN SortedSeq({WeekLabel(d) : d \in Range(index)})
    ELSE SortedSeq({MonthLabel(d) : d \in Range(index)})

\* idx[idx.get_indexer([d], method="nearest")[0]] on an increasing index
nearest(index, d) ==
    LET before == {x \in Range(index) : x <= d}
        after == {x \in Range(index) : x >= d}
        left == CHOOSE x \in before : \A y \in before : y <= x
        right == CHOOSE x \in after : \A y \in after : x <= y
    IN  IF before = {} THEN right
        ELSE IF after = {} THEN left
        ELSE IF d - left < right - d THEN left ELSE right

\* the date of the index at which the loop assigns the weights for schedule date d
align(index, d) == IF d \in Range(index) THEN d ELSE nearest(index, d)

\* the weight vector the loop computes at a rebalance date
weights_at_rebalance(tickers, weight_mode, user_weights) ==
    IF weight_mode = "equal" THEN _equal_weights(Len(tickers))
    ELSE _custom_weights(tickers, user_weights)

NaNRow(n) == AsColumn([i \in 1..n |-> NaN], n)

\* mutant of WeightsAfter: from the second rebalance date on the weights are
\* reset to equal weights, whatever the weight mode
RECURSIVE WeightsAfter_reset_to_equal(_, _, _, _, _)
WeightsAfter_reset_to_equal(index, tickers, req, rebal_dates, k) ==
    IF k = 0 THEN AsColumn([t \in 1..Len(index) |-> NaNRow(Len(tickers))], Len(index))
    ELSE LET before == WeightsAfter_reset_to_equal(index, tickers, req, rebal_dates, k - 1)
             d == align(index, rebal_dates[k])
             current_w == IF k > 1 THEN _equal_weights(Len(tickers))
                          ELSE weights_at_rebalance(tickers, req.weight_mode, req.user_weights)
         IN  AsColumn([t \in 1..Len(index) |->
                          IF index[t] >= d THEN current_w ELSE before[t]],
                      Len(index))

\* mutant of WeightsAfter: the weights are written below the rebalance date only,
\* the row of the date itself keeps what it had
RECURSIVE WeightsAfter_below_date(_, _, _, _, _)
WeightsAfter_below_date(index, tickers, req, rebal_dates, k) ==
    IF k = 0 THEN AsColumn([t \in 1..Len(index) |-> NaNRow(Len(tickers))], Len(index))
    ELSE LET before == WeightsAfter_below_date(index, tickers, req, rebal_dates, k - 1)
             d == align(index, rebal_dates[k])
             current_w == weights_at_rebalance(tickers, req.weight_mode, req.user_weights)
         IN  AsColumn([t \in 1..Len(index) |->
                          IF index[t] > d THEN current_w ELSE before[t]],
                      Len(index))

\* weights_ts after the first k dates of the schedule: weights_ts.loc[d:, :] = current_w
RECURSIVE WeightsAfter(_, _, _, _, _)
WeightsAfter(index, tickers, req, rebal_dates, k) ==
    IF k = 0 THEN AsColumn([t \in 1..Len(index) |-> NaNRow(Len(tickers))], Len(index))
    ELSE LET before == WeightsAfter(index, tickers, req, rebal_dates, k - 1)
             d == align(index, rebal_dates[k])
             current_w == weights_at_rebalance(tickers, req.weight_mode, req.user_weights)
         IN  AsColumn([t \in 1..Len(index) |->
                          IF index[t] >= d THEN current_w ELSE before[t]],
                      Len(index))

\* DataFrame.ffill() of the weight rows
RECURSIVE FfillRowAt(_, _)
FfillRowAt(rows, t) ==
    IF t = 1 THEN rows[1]
    ELSE LET prev == FfillRowAt(rows, t - 1)
         IN  AsColumn([i \in 1..Len(rows[t]) |->
                          IF IsNaN(rows[t][i]) THEN prev[i] ELSE rows[t][i]],
                      Len(rows[t]))

ffill_rows(rows) == AsColumn([t \in 1..Len(rows) |-> FfillRowAt(rows, t)], Len(rows))

\* the positions of the rows without NaN
RECURSIVE KeptRowsUpTo(_, _)
KeptRowsUpTo(rows, t) ==
    IF t = 0 THEN << >>
    ELSE IF \A i \in 1..Len(rows[t]) : ~IsNaN(rows[t][i])
         THEN Append(KeptRowsUpTo(rows, t - 1), t)
         ELSE KeptRowsUpTo(rows, t - 1)

\* mutant of portfolio_return: the plain mean of the returns of the date, the
\* weights are not applied
portfolio_return_unweighted(ret_row, w_row) ==
    FDiv(row_sum(ret_row), Num(Len(ret_row)))

\* (returns.loc[weights_ts.index] * weights_ts).sum(axis=1) at one date
portfolio_return(ret_row, w_row) ==
    row_sum(AsColumn([i \in 1..Len(w_row) |-> FMul(ret_row[i], w_row[i])], Len(w_row)))

\* the dates at which the loop of _backtest_portfolio assigns the weights
rebalance_assignments(index, rebalance) ==
    LET rebal_dates == _rebalance_dates(index, rebalance)
    IN  AsColumn([k \in 1..Len(rebal_dates) |-> align(index, rebal_dates[k])],
                 Len(rebal_dates))

\* _backtest_portfolio(returns, weight_mode, user_weights, rebalance)
_backtest_portfolio(rets, req) ==
    IF Len(rets.index) = 0
    THEN [weights_ts |-> [index |-> << >>, rows |-> << >>],
          port_rets |-> [index |-> << >>, values |-> << >>],
          port_val |-> [index |-> << >>, values |-> << >>]]
    ELSE
    LET index == rets.index
        rebal_dates == _rebalance_dates(index, req.rebalance)
        filled == ffill_rows(WeightsAfter(index, Tickers, req, rebal_dates, Len(rebal_dates)))
        kept == KeptRowsUpTo(filled, Len(index))
        w_index == AsColumn([k \in 1..Len(kept) |-> index[kept[k]]], Len(kept))
        w_rows == AsColumn([k \in 1..Len(kept) |-> filled[kept[k]]], Len(kept))
        p_rets == AsColumn([k \in 1..Len(kept) |->
                               portfolio_return(rets.rows[kept[k]], w_rows[k])], Len(kept))
    IN  [weights_ts |-> [index |-> w_index, rows |-> w_rows],
         port_rets |-> [index |-> w_index, values |-> p_rets],
         port_val |-> [index |-> w_index,
                       values |-> CumprodUpTo(p_rets, AsColumn([k \in 1..Len(kept) |-> k],
                                                               Len(kept)), Len(kept))]]

-----------------------------------------------------------------------------
(* Inputs of the portfolio backtest *)

\* first dates: Thu 2024-01-25 .. Wed 2024-01-31 (every weekday, the end of a month)
StartDays == 25..31

\* calendar days from one date of the table to the next (next day, over a weekend)
Gaps == {1, 3}

RECURSIVE DateIndexes(_)
DateIndexes(n) ==
    IF n = 0 THEN {<< >>}
    ELSE IF n = 1 THEN {<<d>> : d \in StartDays}
    ELSE {Append(s, s[n-1] + g) : s \in DateIndexes(n - 1), g \in Gaps}

\* one row of the return table: the daily return of each ticker
ReturnRows == {<< <<1, 2>>, <<-1, 2>>, <<0, 1>> >>,
               << <<-1, 2>>, <<1, 1>>, <<1, 4>> >>}

ReturnTables ==
    UNION {[index : DateIndexes(n), rows : SeqsOfLen(ReturnRows, n)] : n \in 0..MaxDates}

\* the values typed into a custom weight field
WeightInputs == {-1, 0, 1, 3}

TickerSets == SUBSET Range(Tickers)

UserWeights == UNION {[S -> WeightInputs] : S \in TickerSets}

Requests ==
    [weight_mode : {"equal"}, user_weights : {<< >>}, rebalance : {"none", "W", "M"}]
    \cup [weight_mode : {"custom"}, user_weights : UserWeights, rebalance : {"none", "W", "M"}]

\* a return table has been computed from the prices; no backtest has run yet
InitQuantB ==
    /\ pc = "input"
    /\ returns \in ReturnTables
    /\ request = NoRequest
    /\ rebal_log = << >>
    /\ backtest = NoBacktest
    /\ df = << >>
    /\ params = NoParams
    /\ df_strat = NoTable
    /\ cum_strat = NoSeries
    /\ clock = 0
    /\ generation = 0
    /\ data_caches = << >>
    /\ value_locks = << >>
    /\ call = << >>
    /\ downloads = << >>
    /\ run = << >>
    /\ screen = << >>
    /\ report_run = << >>
    /\ report_file = << >>
    /\ parsed_data = << >>
    /\ series = << >>
    /\ metrics = << >>

\* _backtest_portfolio(returns, weight_mode, user_weights, rebalance)
RunBacktestPortfolio ==
    /\ pc = "input"
    /\ \E req \in Requests :
          /\ request' = req
          /\ rebal_log' = IF Len(returns.index) = 0 THEN << >>
                          ELSE rebalance_assignments(returns.index, req.rebalance)
          /\ backtest' = _backtest_portfolio(returns, req)
    /\ pc' = "portfolio"
    /\ UNCHANGED returns

-----------------------------------------------------------------------------
(* shared/data_manager.py, quant_b/analysis_quantb.py : the cached price fetch *)
(*                                                                           *)
(* get_financial_data and _load_prices_cached are both wrapped by            *)
(* @st.cache_data(ttl=300).  A wrapped call reads the cache of its function  *)
(* under the key of its arguments; on a miss it takes the lock of that key,  *)
(* reads again, and only then runs the function body and stores the result   *)
(* with the time of the write.  An entry is served while its age is below    *)
(* the ttl.  st.cache_data.clear() drops the caches of every function.       *)
(* A cached value is identified by the download that produced it (its        *)
(* position in the list of downloads).                                       *)

\* ttl of both caches, in seconds
ttl == 300

\* Latest time the clock reaches.
MaxClock == 450

\* Largest number of script runs, all sessions together.
MaxRuns == 4

\* browser sessions, each running the script of one page at a time
Sessions == {1, 2}

\* the steps by which time advances, in seconds
Delays == {150}

Pages == {"quant_a", "quant_b"}

Functions == {"_load_prices_cached", "get_financial_data"}

\* the arguments a page passes to the price fetch: run_quant_a calls
\* get_financial_data(asset, period=period), run_quant_b calls
\* _load_prices_cached(tickers, period, interval)
KeysOf(page) ==
    IF page = "quant_a"
    THEN {<<"AAPL", "1y">>}
    ELSE {<<"AAPL,MSFT,GOOGL", "1y", "1d">>}

AllKeys == KeysOf("quant_a") \cup KeysOf("quant_b")

\* the function a page calls
EntryFunction(page) ==
    IF page = "quant_b" THEN "_load_prices_cached" ELSE "get_financial_data"

NoEntry == [download |-> 0, written |-> 0]

\* an entry is served while its age is below the ttl
IsFresh(entry, now) == entry.download # 0 /\ now - entry.written < ttl

\* the cache objects: the ones in use at the start and the ones made after
\* each st.cache_data.clear()
CacheObjects == 0..MaxRuns

EmptyCaches == [f \in Functions |-> [k \in AllKeys |-> NoEntry]]

FreeLocks == [f \in Functions |-> [k \in AllKeys |-> 0]]

NoCall == [pc |-> "idle", page |-> "none", fn |-> "none", key |-> << >>,
           value |-> 0, gen |-> 0, outer |-> 0, inner |-> 0,
           runs |-> 0, returned |-> 0]

\* the script runs the sessions of S have started so far
RECURSIVE RunsStarted(_)
RunsStarted(S) ==
    IF S = {} THEN 0
    ELSE LET s == CHOOSE x \in S : TRUE
         IN  call[s].runs + RunsStarted(S \ {s})

InitCache ==
    /\ clock = 0
    /\ generation = 0
    /\ data_caches = [o \in CacheObjects |-> EmptyCaches]
    /\ value_locks = [o \in CacheObjects |-> FreeLocks]
    /\ call = [s \in Sessions |-> NoCall]
    /\ downloads = << >>
    /\ run = << >>
    /\ screen = << >>
    /\ report_run = << >>
    /\ report_file = << >>
    /\ parsed_data = << >>
    /\ series = << >>
    /\ metrics = << >>
    /\ pc = "input"
    /\ df = << >>
    /\ params = NoParams
    /\ df_strat = NoTable
    /\ cum_strat = NoSeries
    /\ returns = NoReturns
    /\ request = NoRequest
    /\ rebal_log = << >>
    /\ backtest = NoBacktest

\* the cache object a call is using for the function it is in
CacheOf(c) == IF c.fn = "_load_prices_cached" THEN c.outer ELSE c.inner

\* the entry of a call's key
EntryOf(c) == data_caches[CacheOf(c)][c.fn][c.key]

\* the wrapped function returns v: get_financial_data called from the body of
\* _load_prices_cached returns into that body, every other return ends the load
Returned(c, v, now) ==
    IF c.fn = "get_financial_data" /\ c.page = "quant_b"
    THEN [c EXCEPT !.pc = "store", !.fn = "_load_prices_cached", !.value = v]
    ELSE [c EXCEPT !.pc = "done", !.value = v, !.returned = now,
                   !.outer = 0, !.inner = 0]

\* the call a script run makes when it reaches its price fetch
NewCall(c, page, key) ==
    [pc |-> "read", page |-> page, fn |-> EntryFunction(page), key |-> key,
     value |-> 0, gen |-> generation, outer |-> generation, inner |-> generation,
     runs |-> c.runs + 1, returned |-> 0]

\* the first read of the cache: a hit returns the stored value
read_result(c) ==
    IF IsFresh(EntryOf(c), clock)
    THEN Returned(c, EntryOf(c).download, clock)
    ELSE [c EXCEPT !.pc = "wait"]

\* a script run reaches its price fetch and reads the cache of the function
StartRun(s) ==
    /\ call[s].pc \in {"idle", "done"}
    /\ RunsStarted(Sessions) < MaxRuns
    /\ \E page \in Pages : \E key \in KeysOf(page) :
          call' = [call EXCEPT ![s] = read_result(NewCall(call[s], page, key))]
    /\ UNCHANGED <<clock, generation, data_caches, value_locks, downloads>>

\* get_financial_data, called from the body of _load_prices_cached, reads its cache
ReadResult(s) ==
    /\ call[s].pc = "read"
    /\ call' = [call EXCEPT ![s] = read_result(call[s])]
    /\ UNCHANGED <<clock, generation, data_caches, value_locks, downloads>>

\* mutant of lock_available: a key is computed without waiting for its lock
lock_available_unguarded(holder) == TRUE

\* the lock of a key can be taken when no session holds it
lock_available(holder) == holder = 0

\* the body of the function begins: _load_prices_cached calls the getter,
\* get_financial_data calls yf.download
EnterBody(c, n) ==
    IF c.fn = "_load_prices_cached"
    THEN [c EXCEPT !.pc = "read", !.fn = "get_financial_data", !.inner = generation]
    ELSE [c EXCEPT !.pc = "download", !.value = n]

\* a miss: take the lock of the key, read again, and run the body on a second miss
ComputeValue(s) ==
    /\ call[s].pc = "wait"
    /\ lock_available(value_locks[CacheOf(call[s])][call[s].fn][call[s].key])
    /\ IF IsFresh(EntryOf(call[s]), clock)
       THEN /\ call' = [call EXCEPT ![s] =
                           Returned(call[s], EntryOf(call[s]).download, clock)]
            /\ UNCHANGED <<value_locks, downloads>>
       ELSE /\ value_locks' =
                  [value_locks EXCEPT ![CacheOf(call[s])][call[s].fn][call[s].key] = s]
            /\ call' = [call EXCEPT ![s] = EnterBody(call[s], Len(downloads) + 1)]
            /\ downloads' =
                  IF call[s].fn = "get_financial_data"
                  THEN Append(downloads, [key |-> call[s].key, start |-> clock,
                                          gen |-> call[s].inner, done_gen |-> -1,
                                          written |-> -1, raised |-> FALSE])
                  ELSE downloads
    /\ UNCHANGED <<clock, generation, data_caches>>

\* mutant of write_result: the empty table of a download that raised is not stored
write_result_unless_raised(entry, value, raised, now) ==
    IF raised THEN entry ELSE [download |-> value, written |-> now]

\* cache.write_result(value_key, computed_value): the entry after the wrapper
\* has stored what the body returned, whether yf.download raised or not
write_result(entry, value, raised, now) == [download |-> value, written |-> now]

\* yf.download returns or raises, get_financial_data returns a table either way
\* (the empty one when the download raised), the table is stored and the lock
\* released
Download(s) ==
    /\ call[s].pc = "download"
    /\ \E raised \in BOOLEAN :
          /\ downloads' = [downloads EXCEPT ![call[s].value].done_gen = generation,
                                            ![call[s].value].written = clock,
                                            ![call[s].value].raised = raised]
          /\ data_caches' =
                [data_caches EXCEPT ![call[s].inner]["get_financial_data"][call[s].key] =
                    write_result(@, call[s].value, raised, clock)]
    /\ value_locks' =
          [value_locks EXCEPT ![call[s].inner]["get_financial_data"][call[s].key] = 0]
    /\ call' = [call EXCEPT ![s] = Returned(call[s], call[s].value, clock)]
    /\ UNCHANGED <<clock, generation>>

\* _load_prices_cached returns: its result is stored and its lock released
WriteResult(s) ==
    /\ call[s].pc = "store"
    /\ data_caches' =
          [data_caches EXCEPT ![call[s].outer]["_load_prices_cached"][call[s].key] =
              [download |-> call[s].value, written |-> clock]]
    /\ value_locks' =
          [value_locks EXCEPT ![call[s].outer]["_load_prices_cached"][call[s].key] = 0]
    /\ call' = [call EXCEPT ![s] = [@ EXCEPT !.pc = "done", !.returned = clock,
                                              !.outer = 0, !.inner = 0]]
    /\ UNCHANGED <<clock, generation, downloads>>

Tick ==
    /\ \E d \in Delays :
          /\ clock + d <= MaxClock
          /\ clock' = clock + d
    /\ UNCHANGED <<generation, data_caches, value_locks, call, downloads>>

\* mutant of cleared_entry: only the key of the current request is cleared
cleared_entry_of_other_key_kept(entry, k, current_key) ==
    IF k = current_key THEN NoEntry ELSE entry

\* st.cache_data.clear(): what is left of the entry of key k when the page whose
\* request has key current_key clears the caches
cleared_entry(entry, k, current_key) == NoEntry

\* a script run of run_quant_b with the Refresh button pressed:
\* st.cache_data.clear(); st.rerun().
\* The clear drops the cache objects of every function; the next call of a
\* function makes a new, empty one.  A call that is running keeps the object it
\* obtained when it was made.
Refresh(s) ==
    /\ call[s].pc \in {"idle", "done"}
    /\ RunsStarted(Sessions) < MaxRuns
    /\ generation' = generation + 1
    /\ \E current_key \in KeysOf("quant_b") :
          data_caches' =
              [data_caches EXCEPT ![generation + 1] =
                  [f \in Functions |-> [k \in AllKeys |->
                      cleared_entry(data_caches[generation][f][k], k, current_key)]]]
    /\ call' = [call EXCEPT ![s] = [@ EXCEPT !.pc = "idle", !.runs = @ + 1]]
    /\ UNCHANGED <<clock, value_locks, downloads>>

-----------------------------------------------------------------------------
(* quant_a/analysis_quanta.py run_quant_a, quant_b/analysis_quantb.py          *)
(* run_quant_b : one run of the script of a page.  A price table is described  *)
(* by its kind, its columns and its number of rows; the screen is the list of  *)
(* the elements the run has rendered.                                          *)

\* Largest number of comma-separated fields typed in the tickers box.
MaxTickers == 3

\* the fields typed between the commas of the tickers box, after strip and upper
Fields == {"", "AAPL", "MSFT", "GOOGL"}

RECURSIVE SeqsUpTo(_, _)
SeqsUpTo(S, n) ==
    IF n = 0 THEN {<< >>}
    ELSE SeqsUpTo(S, n - 1) \cup {Append(q, x) : q \in SeqsOfLen(S, n - 1), x \in S}

IsNonEmptyField(t) == t # ""

\* tickers = [t.strip().upper() for t in tickers_input.split(",") if t.strip()]
parse_tickers(fields) == SelectSeq(fields, IsNonEmptyField)

\* pd.DataFrame()
EmptyFrame == [kind |-> "frame", columns |-> << >>, rows |-> 0]

\* DataFrame.empty / Series.empty
IsEmpty(table) ==
    /\ table.kind # "raise"
    /\ table.rows = 0 \/ (table.kind = "frame" /\ Len(table.columns) = 0)

\* numbers of rows of a downloaded table: none, or some
RowCounts == {0, 2}

\* the distinct elements of a list, in the order of their first occurrence
RECURSIVE Unique(_)
Unique(s) ==
    IF Len(s) = 0 THEN << >>
    ELSE IF s[Len(s)] \in Range(SubSeq(s, 1, Len(s) - 1))
         THEN Unique(SubSeq(s, 1, Len(s) - 1))
         ELSE Append(Unique(SubSeq(s, 1, Len(s) - 1)), s[Len(s)])

\* the elements of a list that are in a set
Among(s, S) == SelectSeq(s, LAMBDA t : t \in S)

\* what yf.download does for a list of tickers: it raises, or returns the close
\* prices of some of the distinct symbols asked for, as a table with one column
\* per symbol or, for a single symbol, possibly as a series
Outcomes(tickers) ==
    {[kind |-> "raise", columns |-> << >>, rows |-> 0]}
    \cup {[kind |-> "frame", columns |-> Among(Unique(tickers), S), rows |-> n] :
             S \in SUBSET Range(tickers), n \in RowCounts}
    \cup {[kind |-> "series", columns |-> Unique(tickers), rows |-> n] :
             n \in {m \in RowCounts : Cardinality(Range(tickers)) = 1}}

\* mutant of get_financial_data: the exception of the download is not caught
get_financial_data_uncaught(outcome) == outcome

\* get_financial_data: an exception of the download is reported and an empty
\* table is returned
get_financial_data(outcome) ==
    IF outcome.kind = "raise" THEN EmptyFrame ELSE outcome

\* the element get_financial_data renders
get_financial_data_message(outcome) ==
    IF outcome.kind = "raise" THEN <<"error: API Connection Error">> ELSE << >>

\* _load_prices_cached: what the getter returns becomes an empty DataFrame
\* unless it is a non-empty DataFrame; an exception of the getter is not caught
_load_prices_cached(table) ==
    IF table.kind = "raise" THEN table
    ELSE IF table.kind # "frame" \/ IsEmpty(table) THEN EmptyFrame
    ELSE table

\* the table the page receives from its price fetch
LoadedPrices(page, outcome) ==
    IF page = "quant_b"
    THEN _load_prices_cached(get_financial_data(outcome))
    ELSE get_financial_data(outcome)

HasDuplicates(s) == Cardinality(Range(s)) < Len(s)

\* tickers_ok = [t for t in tickers if t in prices.columns]
tickers_ok(tickers, table) == Among(tickers, Range(table.columns))

NoRun == [pc |-> "none", page |-> "none", tickers |-> << >>, weight_mode |-> "equal",
          strat_choice |-> "adx", er |-> "nan", show_forecast |-> FALSE,
          download |-> "none", prices |-> EmptyFrame, provider_calls |-> 0,
          backtests |-> << >>,
          arima |-> "off", forecast_mean |-> "None", conf_int |-> "None",
          future_dates |-> "None", raised |-> "none"]

\* the widget values of a run of run_quant_b
QuantBRuns ==
    {[NoRun EXCEPT !.pc = "sidebar", !.page = "quant_b",
                   !.tickers = parse_tickers(fields), !.weight_mode = mode] :
        fields \in SeqsUpTo(Fields, MaxTickers), mode \in {"equal", "custom"}}

\* the widget values of a run of run_quant_a
QuantARuns ==
    {[NoRun EXCEPT !.pc = "load", !.page = "quant_a", !.tickers = <<"AAPL">>,
                   !.strat_choice = strat, !.show_forecast = show] :
        strat \in {"momentum", "adx"}, show \in BOOLEAN}

InitPages ==
    /\ run \in QuantARuns \cup QuantBRuns
    /\ screen = << >>
    /\ report_run = << >>
    /\ report_file = << >>
    /\ parsed_data = << >>
    /\ series = << >>
    /\ metrics = << >>
    /\ clock = 0
    /\ generation = 0
    /\ data_caches = << >>
    /\ value_locks = << >>
    /\ call = << >>
    /\ downloads = << >>
    /\ pc = "input"
    /\ df = << >>
    /\ params = NoParams
    /\ df_strat = NoTable
    /\ cum_strat = NoSeries
    /\ returns = NoReturns
    /\ request = NoRequest
    /\ rebal_log = << >>
    /\ backtest = NoBacktest

\* run_quant_b, the sidebar: the warning for fewer than 3 tickers, one
\* number_input per ticker in custom mode (two inputs with the same label raise
\* a duplicate-widget error), st.stop() for fewer than 3 tickers
sidebar(r) ==
    IF r.weight_mode = "custom" /\ HasDuplicates(r.tickers)
    THEN [r EXCEPT !.pc = "raised", !.raised = "DuplicateWidgetID"]
    ELSE IF Len(r.tickers) < 3 THEN [r EXCEPT !.pc = "stopped"]
    ELSE [r EXCEPT !.pc = "load"]

sidebar_messages(r) ==
    IF Len(r.tickers) < 3
    THEN <<"warning: Please select at least 3 assets">>
    ELSE << >>

QuantBSidebar ==
    /\ run.pc = "sidebar"
    /\ run' = sidebar(run)
    /\ screen' = screen \o sidebar_messages(run)

\* the run after its price fetch has returned a table, or raised
loaded(r, outcome, table, hit) ==
    IF table.kind = "raise"
    THEN [r EXCEPT !.pc = "raised", !.raised = "Exception", !.download = outcome.kind,
                   !.provider_calls = IF hit THEN @ ELSE @ + 1]
    ELSE [r EXCEPT !.pc = "loaded", !.prices = table, !.download = outcome.kind,
                   !.provider_calls = IF hit THEN @ ELSE @ + 1]

\* the price fetch of either page: the cache answers with the table of an
\* earlier download, or the provider is called
LoadPrices ==
    /\ run.pc = "load"
    /\ \E outcome \in Outcomes(run.tickers) : \E hit \in BOOLEAN :
          /\ run' = loaded(run, outcome, LoadedPrices(run.page, outcome), hit)
          /\ screen' = screen \o get_financial_data_message(outcome)

\* run_quant_b after the load: the two checks that end the run
checked_prices(r) ==
    IF IsEmpty(r.prices) THEN [r EXCEPT !.pc = "stopped"]
    ELSE IF Len(tickers_ok(r.tickers, r.prices)) < 3
         THEN [r EXCEPT !.pc = "stopped",
                        !.prices.columns = tickers_ok(r.tickers, r.prices)]
         ELSE [r EXCEPT !.pc = "backtest",
                        !.prices.columns = tickers_ok(r.tickers, r.prices)]

checked_prices_messages(r) ==
    IF IsEmpty(r.prices) THEN <<"error: No data returned">>
    ELSE IF Len(tickers_ok(r.tickers, r.prices)) < 3
         THEN <<"error: Data source returned fewer than 3 valid assets">>
         ELSE << >>

QuantBCheckPrices ==
    /\ run.pc = "loaded"
    /\ run.page = "quant_b"
    /\ run' = checked_prices(run)
    /\ screen' = screen \o checked_prices_messages(run)

\* run_quant_b: the backtest on the columns of the price table, and the display
QuantBBacktest ==
    /\ run.pc = "backtest"
    /\ run' = [run EXCEPT !.pc = "rendered",
                          !.backtests = Append(@, run.prices.columns)]
    /\ screen' = screen \o <<"chart: Portfolio value", "table: Key metrics">>

\* run_quant_a after the load: an empty table is reported and the run returns
QuantACheckData ==
    /\ run.pc = "loaded"
    /\ run.page = "quant_a"
    /\ run' = [run EXCEPT !.pc = IF IsEmpty(run.prices) THEN "returned" ELSE "strategy"]
    /\ screen' = screen \o (IF IsEmpty(run.prices)
                            THEN <<"error: Ticker not found or no data available">>
                            ELSE << >>)

\* run_quant_a: the efficiency ratio (NaN on a short table) and the backtest of
\* the chosen strategy; the momentum windows are int(5 + 45 * (1 - er))
QuantAStrategy ==
    /\ run.pc = "strategy"
    /\ \E er \in {"nan", "number"} :
          run' = IF run.strat_choice = "momentum" /\ er = "nan"
                 THEN [run EXCEPT !.er = er, !.pc = "raised", !.raised = "ValueError"]
                 ELSE [run EXCEPT !.er = er, !.pc = "forecast",
                                  !.backtests = Append(@, <<"Close">>)]
    /\ UNCHANGED screen

\* the statements of the try block, in order
ArimaSteps == <<"fit", "get_forecast", "predicted_mean", "conf_int", "future_dates">>

\* the position of a statement in the try block (6 when nothing raises)
Position(step) ==
    IF step = "none" THEN Len(ArimaSteps) + 1
    ELSE CHOOSE i \in 1..Len(ArimaSteps) : ArimaSteps[i] = step

\* the names assigned in the try block when the statement raise_at raises:
\* forecast_mean, conf_int and future_dates are assigned in this order and the
\* bare except leaves the ones not reached at None
forecast(r, raise_at) ==
    [r EXCEPT !.pc = "plot", !.arima = raise_at,
              !.forecast_mean = IF Position(raise_at) > 3 THEN "predicted" ELSE "None",
              !.conf_int = IF Position(raise_at) > 4 THEN "interval" ELSE "None",
              !.future_dates = IF Position(raise_at) > 5 THEN "dates" ELSE "None"]

\* run_quant_a: the ARIMA forecast behind its checkbox
QuantAForecast ==
    /\ run.pc = "forecast"
    /\ IF run.show_forecast
       THEN \E raise_at \in Range(ArimaSteps) \cup {"none"} : run' = forecast(run, raise_at)
       ELSE run' = [run EXCEPT !.pc = "plot"]
    /\ UNCHANGED screen

\* mutant of forecast_plotted: the forecast is drawn as soon as the mean is given
forecast_plotted_if_mean(forecast_mean, future_dates) == forecast_mean # "None"

\* plot_quant_a_performance: the forecast is drawn when both the mean and the
\* dates are given
forecast_plotted(forecast_mean, future_dates) ==
    forecast_mean # "None" /\ future_dates # "None"

\* plot_quant_a_performance: the traces of the figure; reading the interval of a
\* forecast without one raises
plot_quant_a_performance(r) ==
    IF forecast_plotted(r.forecast_mean, r.future_dates)
    THEN IF r.conf_int = "None"
         THEN [r EXCEPT !.pc = "raised", !.raised = "AttributeError"]
         ELSE [r EXCEPT !.pc = "metrics"]
    ELSE [r EXCEPT !.pc = "metrics"]

plot_traces(r) ==
    IF forecast_plotted(r.forecast_mean, r.future_dates)
    THEN IF r.conf_int = "None" THEN << >>
         ELSE <<"trace: Momentum Strategy", "trace: Buy & Hold (Asset)",
                "trace: ARIMA Forecast (Extrapolated)", "trace: upper",
                "trace: Confidence Interval">>
    ELSE <<"trace: Momentum Strategy", "trace: Buy & Hold (Asset)">>

QuantAPlot ==
    /\ run.pc = "plot"
    /\ run' = plot_quant_a_performance(run)
    /\ screen' = screen \o plot_traces(run)

\* run_quant_a: the four metrics of the comparison with buy and hold
QuantAMetrics ==
    /\ run.pc = "metrics"
    /\ run' = [run EXCEPT !.pc = "rendered"]
    /\ screen' = screen \o <<"metric: Total Return", "metric: Sharpe Ratio",
                            "metric: Sortino Ratio", "metric: Max Drawdown">>

-----------------------------------------------------------------------------
(* scripts/daily_report.py generate_report and the Daily Reports page of      *)
(* main.py.  A text is a sequence of characters (one-character strings), so   *)
(* that formatting, joining, splitting and stripping are modelled by what     *)
(* they do to the characters.                                                 *)

DigitChars == <<"0", "1", "2", "3", "4", "5", "6", "7", "8", "9">>

\* the decimal digits of a natural number
RECURSIVE Digits(_)
Digits(n) ==
    IF n < 10 THEN <<DigitChars[n + 1]>>
    ELSE Append(Digits(n \div 10), DigitChars[(n % 10) + 1])

RECURSIVE Pow10(_)
Pow10(d) == IF d = 0 THEN 1 ELSE 10 * Pow10(d - 1)

Repeat(c, n) == [i \in 1..n |-> c]

\* the digits of n, with zeros in front up to d digits
ZeroPad(n, d) == Repeat("0", d - Len(Digits(n))) \o Digits(n)

\* num / den rounded to the nearest integer, ties to even (num >= 0, den > 0)
RoundHalfEven(num, den) ==
    IF 2 * (num % den) < den THEN num \div den
    ELSE IF 2 * (num % den) > den THEN (num \div den) + 1
    ELSE IF (num \div den) % 2 = 0 THEN num \div den
    ELSE (num \div den) + 1

\* the text of whole + frac / 10^d, after the carry of a rounded-up fraction
FixedText(whole, frac, d) ==
    IF frac = Pow10(d)
    THEN Digits(whole + 1) \o <<".">> \o ZeroPad(0, d)
    ELSE Digits(whole) \o <<".">> \o ZeroPad(frac, d)

\* format(v, ".{d}f"): fixed notation with d decimals; nan, inf and -inf for
\* the values that are not finite; the sign of a negative value is kept
format_f(v, d) ==
    IF IsNaN(v) THEN <<"n", "a", "n">>
    ELSE IF v[2] = 0 THEN (IF v[1] > 0 THEN <<"i", "n", "f">> ELSE <<"-", "i", "n", "f">>)
    ELSE (IF v[1] < 0 THEN <<"-">> ELSE << >>)
         \o FixedText(Abs(v[1]) \div v[2],
                      RoundHalfEven((Abs(v[1]) % v[2]) * Pow10(d), v[2]), d)

\* format(v, ".{d}%"): the value times 100 in fixed notation, then a percent sign
format_percent(v, d) == format_f(FMul(v, Num(100)), d) \o <<"%">>

\* a width in a format specification: numbers are right-aligned, strings
\* left-aligned, and a longer text is not cut
PadLeft(text, width) == Repeat(" ", width - Len(text)) \o text

PadRight(text, width) == text \o Repeat(" ", width - Len(text))

IsSpace(c) == c \in {" ", "\n", "\t"}

RECURSIVE lstrip(_)
lstrip(text) ==
    IF Len(text) > 0 /\ IsSpace(text[1]) THEN lstrip(Tail(text)) ELSE text

RECURSIVE rstrip(_)
rstrip(text) ==
    IF Len(text) > 0 /\ IsSpace(text[Len(text)])
    THEN rstrip(SubSeq(text, 1, Len(text) - 1))
    ELSE text

\* str.strip()
strip(text) == lstrip(rstrip(text))

\* the positions of the separator in the text
SepPositions(text, sep) == {i \in 1..Len(text) : text[i] = sep}

\* the position of the k-th separator; 0 before the first one and one past
\* the end of the text after the last one
NthSep(text, sep, k) ==
    IF k = 0 THEN 0
    ELSE IF k > Cardinality(SepPositions(text, sep)) THEN Len(text) + 1
    ELSE CHOOSE p \in SepPositions(text, sep) :
            Cardinality({q \in SepPositions(text, sep) : q < p}) = k - 1

\* str.split(sep) for a separator of one character: the pieces between the
\* separators, one more than there are separators
split(text, sep) ==
    [k \in 1..(Cardinality(SepPositions(text, sep)) + 1) |->
        SubSeq(text, NthSep(text, sep, k - 1) + 1, NthSep(text, sep, k) - 1)]

RECURSIVE JoinUpTo(_, _, _)
JoinUpTo(texts, sep, k) ==
    IF k = 0 THEN << >>
    ELSE IF k = 1 THEN texts[1]
    ELSE JoinUpTo(texts, sep, k - 1) \o sep \o texts[k]

\* sep.join(texts)
join(texts, sep) == JoinUpTo(texts, sep, Len(texts))

RECURSIVE LinesUpTo(_, _)
LinesUpTo(texts, k) ==
    IF k = 0 THEN << >> ELSE LinesUpTo(texts, k - 1) \o split(texts[k], "\n")

\* the text "\n".join(texts), held as the sequence of its lines (the pieces
\* between its newline characters): an element of texts gives one line, or
\* several when it has newline characters of its own
joined_lines(texts) == LinesUpTo(texts, Len(texts))

\* text.startswith(prefix)
StartsWith(text, prefix) ==
    Len(text) >= Len(prefix) /\ SubSeq(text, 1, Len(prefix)) = prefix

\* sub in text
Contains(text, sub) ==
    \E i \in 1..(Len(text) - Len(sub) + 1) : SubSeq(text, i, i + Len(sub) - 1) = sub

\* text.replace(sub, "")
RECURSIVE Remove(_, _)
Remove(text, sub) ==
    IF Len(text) = 0 THEN << >>
    ELSE IF StartsWith(text, sub) THEN Remove(SubSeq(text, Len(sub) + 1, Len(text)), sub)
    ELSE <<text[1]>> \o Remove(Tail(text), sub)

RuleEquals ==
    <<"=", "=", "=", "=", "=", "=", "=", "=", "=", "=", "=", "=", "=", "=",
      "=", "=", "=", "=", "=", "=", "=", "=", "=", "=", "=", "=", "=", "=",
      "=", "=", "=", "=", "=", "=", "=", "=", "=", "=", "=", "=", "=", "=",
      "=", "=", "=", "=", "=", "=", "=", "=", "=", "=", "=", "=", "=", "=",
      "=", "=", "=", "=", "=", "=", "=", "=", "=", "=", "=", "=", "=", "=">>

RuleDashes ==
    <<"-", "-", "-", "-", "-", "-", "-", "-", "-", "-", "-", "-", "-", "-",
      "-", "-", "-", "-", "-", "-", "-", "-", "-", "-", "-", "-", "-", "-",
      "-", "-", "-", "-", "-", "-", "-", "-", "-", "-", "-", "-", "-", "-",
      "-", "-", "-", "-", "-", "-", "-", "-", "-", "-", "-", "-", "-", "-",
      "-", "-", "-", "-", "-", "-", "-", "-", "-", "-", "-", "-", "-", "-">>

TitleText ==
    <<"D", "A", "I", "L", "Y", " ", "F", "I", "N", "A", "N", "C", "I", "A",
      "L", " ", "R", "E", "P", "O", "R", "T">>

GeneratedLabel ==
    <<"G", "e", "n", "e", "r", "a", "t", "e", "d", ":">>

WindowLabel ==
    <<"D", "a", "t", "a", " ", "w", "i", "n", "d", "o", "w", ":">>

TickersLabel ==
    <<"T", "i", "c", "k", "e", "r", "s", ":", " ">>

LastDateLabel ==
    <<"L", "a", "s", "t", " ", "d", "a", "t", "e", ":", " ">>

PricesTitle ==
    <<"O", "P", "E", "N", " ", "/", " ", "C", "L", "O", "S", "E", " ", "(",
      "l", "a", "t", "e", "s", "t", " ", "t", "r", "a", "d", "i", "n", "g",
      " ", "d", "a", "y", ")">>

RiskTitle ==
    <<"R", "I", "S", "K", " ", "M", "E", "T", "R", "I", "C", "S", " ", "(",
      "b", "a", "s", "e", "d", " ", "o", "n", " ", "d", "a", "i", "l", "y",
      " ", "r", "e", "t", "u", "r", "n", "s", ")">>

PortfolioTitle ==
    <<"B", "O", "N", "U", "S", ":", " ", "E", "Q", "U", "A", "L", "-", "W",
      "E", "I", "G", "H", "T", " ", "P", "O", "R", "T", "F", "O", "L", "I",
      "O">>

PricesMark ==
    <<"O", "P", "E", "N", " ", "/", " ", "C", "L", "O", "S", "E">>

RiskMark ==
    <<"R", "I", "S", "K", " ", "M", "E", "T", "R", "I", "C", "S">>

OpenLabel ==
    <<"O", "p", "e", "n", ":">>

CloseLabel ==
    <<"C", "l", "o", "s", "e", ":">>

VolLabel ==
    <<"V", "o", "l", " ", "(", "a", "n", "n", ".", ")", ":">>

DrawdownLabel ==
    <<"M", "a", "x", " ", "D", "r", "a", "w", "d", "o", "w", "n", ":">>

PortfolioLabel ==
    <<"P", "o", "r", "t", "f", "o", "l", "i", "o">>

FiveDashes ==
    <<"-", "-", "-", "-", "-">>

FiveEquals ==
    <<"=", "=", "=", "=", "=">>

NowText ==
    <<"2", "0", "2", "4", "-", "0", "1", "-", "2", "6", " ", "1", "8", ":",
      "0", "0", ":", "0", "0">>

FirstDateText ==
    <<"2", "0", "2", "3", "-", "0", "7", "-", "2", "6">>

LastDateText ==
    <<"2", "0", "2", "4", "-", "0", "1", "-", "2", "6">>

Arrow ==
    <<" ", "-", ">", " ">>

Unknown ==
    <<"U", "n", "k", "n", "o", "w", "n">>

\* TICKERS of daily_report.py, as texts
TICKERS ==
    << <<"A", "A", "P", "L">>, <<"M", "S", "F", "T">>, <<"G", "O", "O", "G", "L">> >>

\* the symbols the provider can deliver, as positions in TICKERS, in order
ColumnChoices == {<< >>, <<1>>, <<1, 3>>, <<1, 2, 3>>}

\* what one symbol contributes to the report: the open and the close of the
\* last date, and the volatility and max drawdown of its returns (NaN when
\* the returns are too few); the values are floats, so the fractions chosen
\* include ties of the rounding, a carry, a negative value that rounds to
\* zero and a number wider than its field
Rows ==
    { [open |-> <<1053, 4>>, close |-> <<26156, 100>>,
       vol |-> <<443, 2000>>, mdd |-> <<-823, 10000>>],
      [open |-> <<1, 32>>, close |-> <<999999, 100000>>,
       vol |-> NaN, mdd |-> NaN],
      [open |-> <<12345675, 10>>, close |-> <<1, 3>>,
       vol |-> <<99995, 100000>>, mdd |-> <<-1, 100000>>],
      [open |-> <<100, 1>>, close |-> <<100, 1>>,
       vol |-> Zero, mdd |-> Zero] }

PortfolioRows ==
    { [vol |-> <<1, 800>>, mdd |-> <<-3, 800>>],
      [vol |-> NaN, mdd |-> Zero],
      [vol |-> <<25, 2>>, mdd |-> <<-1, 1>>] }

NoPortfolio == [vol |-> NaN, mdd |-> NaN]

Raise ==
    [kind |-> "raise", columns |-> << >>, close_rows |-> FALSE, open_last |-> FALSE,
     row |-> << >>, portfolio |-> NoPortfolio]

\* frames the report can be computed from
FullFrames(columns) ==
    {[kind |-> "frames", columns |-> columns, close_rows |-> TRUE, open_last |-> TRUE,
      row |-> row, portfolio |-> portfolio] :
        row \in [1..Len(columns) -> Rows], portfolio \in PortfolioRows}

\* frames on which a computation raises: close has no row, or open_ does not
\* have the last date of close
BrokenFrames(columns) ==
    {[kind |-> "frames", columns |-> columns, close_rows |-> close_rows,
      open_last |-> FALSE, row |-> << >>, portfolio |-> NoPortfolio] :
        close_rows \in BOOLEAN}

\* the outcomes of _load_prices: an exception (yfinance missing, the download
\* failing), or the frames open_ and close with the values the report prints
LoadOutcomes ==
    {Raise}
    \cup UNION {FullFrames(columns) : columns \in ColumnChoices \ {<< >>}}
    \cup UNION {BrokenFrames(columns) : columns \in ColumnChoices}

\* close.index.max().date() and close.loc[last_date, t] raise on a close
\* without rows, open_.loc[last_date, t] on an open_ without the last date
computation_raises(table) ==
    ~table.close_rows \/ (Len(table.columns) > 0 /\ ~table.open_last)

Sep == <<" ", "|", " ">>

\* f"{t:6s} | Open: {o:10.4f} | Close: {c:10.4f}"
price_line(t, o, c) ==
    PadRight(t, 6) \o Sep \o OpenLabel \o <<" ">> \o PadLeft(format_f(o, 4), 10)
    \o Sep \o CloseLabel \o <<" ">> \o PadLeft(format_f(c, 4), 10)

\* f" | Vol (ann.): {vol:8.2%} | Max Drawdown: {mdd:8.2%}"
risk_fields(vol, mdd) ==
    Sep \o VolLabel \o <<" ">> \o PadLeft(format_percent(vol, 2), 8)
    \o Sep \o DrawdownLabel \o <<" ">> \o PadLeft(format_percent(mdd, 2), 8)

risk_line(t, vol, mdd) == PadRight(t, 6) \o risk_fields(vol, mdd)

portfolio_line(vol, mdd) == PortfolioLabel \o risk_fields(vol, mdd)

ColumnNames(table) == [i \in 1..Len(table.columns) |-> TICKERS[table.columns[i]]]

header_lines(table) ==
    << RuleEquals, TitleText, RuleEquals,
       GeneratedLabel \o <<" ">> \o NowText,
       TickersLabel \o join(ColumnNames(table), <<",", " ">>),
       WindowLabel \o <<" ">> \o FirstDateText \o Arrow \o LastDateText,
       << >> >>

price_lines(table) ==
    << RuleDashes, PricesTitle, RuleDashes, LastDateLabel \o LastDateText \o <<"\n">> >>
    \o [i \in 1..Len(table.columns) |->
          price_line(TICKERS[table.columns[i]], table.row[i].open, table.row[i].close)]
    \o << << >> >>

risk_lines(table) ==
    << RuleDashes, RiskTitle, RuleDashes >>
    \o [i \in 1..Len(table.columns) |->
          risk_line(TICKERS[table.columns[i]], table.row[i].vol, table.row[i].mdd)]
    \o << << >> >>

portfolio_lines(table) ==
    << RuleDashes, PortfolioTitle, RuleDashes,
       portfolio_line(table.portfolio.vol, table.portfolio.mdd), << >> >>

\* the list lines of generate_report
report_lines(table) ==
    header_lines(table) \o price_lines(table) \o risk_lines(table)
    \o portfolio_lines(table)

\* the file reports/daily_report_<today>.txt; the content of a file is held
\* as the sequence of its lines, which is << << >> >> for a file without text
NoFile == [exists |-> FALSE, content |-> << >>]

\* a report of an earlier run of the same day
OldReport ==
    [exists |-> TRUE,
     content |-> joined_lines(report_lines(
        [kind |-> "frames", columns |-> <<1, 2, 3>>, close_rows |-> TRUE,
         open_last |-> TRUE,
         row |-> [i \in 1..3 |-> [open |-> <<100, 1>>, close |-> <<100, 1>>,
                                  vol |-> Zero, mdd |-> Zero]],
         portfolio |-> [vol |-> Zero, mdd |-> Zero]]))]

\* mutant of Steps: the file is opened before the prices are loaded
StepsOpenFirst == <<"open", "load", "compute", "write">>

\* the steps of generate_report in the order of its statements: _load_prices,
\* the returns and the lines, open(out_path, "w"), f.write and the close
Steps == <<"load", "compute", "open", "write">>

NotStarted ==
    [step |-> 1, raised |-> FALSE, table |-> Raise, lines |-> << >>, before |-> NoFile]

\* parsed_data and section before the first line, and the except branch
NotParsed ==
    [read |-> FALSE, content |-> << >>, section |-> "None", generated |-> Unknown,
     window |-> Unknown, prices |-> << >>, risk |-> << >>, portfolio |-> << >>,
     error |-> FALSE]

InitReport ==
    /\ report_file \in {NoFile, OldReport}
    /\ report_run = [NotStarted EXCEPT !.before = report_file]
    /\ parsed_data = NotParsed
    /\ series = << >>
    /\ metrics = << >>
    /\ run = << >>
    /\ screen = << >>
    /\ clock = 0
    /\ generation = 0
    /\ data_caches = << >>
    /\ value_locks = << >>
    /\ call = << >>
    /\ downloads = << >>
    /\ pc = "input"
    /\ df = << >>
    /\ params = NoParams
    /\ df_strat = NoTable
    /\ cum_strat = NoSeries
    /\ returns = NoReturns
    /\ request = NoRequest
    /\ rebal_log = << >>
    /\ backtest = NoBacktest

\* the statement generate_report is at
CurrentStep ==
    IF report_run.raised THEN "raised"
    ELSE IF report_run.step > Len(Steps) THEN "done"
    ELSE Steps[report_run.step]

\* os.makedirs and the path, then _load_prices
ReportLoadPrices ==
    /\ CurrentStep = "load"
    /\ \E outcome \in LoadOutcomes :
         report_run' = IF outcome.kind = "raise"
                       THEN [report_run EXCEPT !.raised = TRUE]
                       ELSE [report_run EXCEPT !.step = @ + 1, !.table = outcome]
    /\ UNCHANGED <<report_file, parsed_data>>

\* the returns, the metrics and the list lines
ReportCompute ==
    /\ CurrentStep = "compute"
    /\ report_run' = IF computation_raises(report_run.table)
                     THEN [report_run EXCEPT !.raised = TRUE]
                     ELSE [report_run EXCEPT !.step = @ + 1,
                                             !.lines = report_lines(report_run.table)]
    /\ UNCHANGED <<report_file, parsed_data>>

\* open(out_path, "w") creates the file or empties it
ReportOpen ==
    /\ CurrentStep = "open"
    /\ report_file' = [exists |-> TRUE, content |-> << << >> >>]
    /\ report_run' = [report_run EXCEPT !.step = @ + 1]
    /\ UNCHANGED parsed_data

\* f.write("\n".join(lines)) and the close at the end of the with block
ReportWrite ==
    /\ CurrentStep = "write"
    /\ report_file' = [exists |-> TRUE, content |-> joined_lines(report_run.lines)]
    /\ report_run' = [report_run EXCEPT !.step = @ + 1]
    /\ UNCHANGED parsed_data

\* parts[i].split(':')[1] exists
has_values(parts) ==
    Len(split(parts[2], ":")) >= 2 /\ Len(split(parts[3], ":")) >= 2

\* mutant of field_value: the spaces around the value are kept
field_value_unstripped(part) == split(part, ":")[2]

\* parts[i].split(':')[1].strip()
field_value(part) == strip(split(part, ":")[2])

price_row(parts) ==
    [Ticker |-> strip(parts[1]), Open |-> field_value(parts[2]),
     Close |-> field_value(parts[3])]

risk_row(parts) ==
    [Ticker |-> strip(parts[1]), Volatility |-> field_value(parts[2]),
     MaxDrawdown |-> field_value(parts[3])]

portfolio_row(parts) ==
    [Volatility |-> field_value(parts[2]), MaxDrawdown |-> field_value(parts[3])]

\* a line of the section: nothing when the label is missing or the line does
\* not split into 3 parts, an exception when a part has no colon
parse_prices(st, line) ==
    IF ~Contains(line, OpenLabel) \/ Len(split(line, "|")) # 3 THEN st
    ELSE IF ~has_values(split(line, "|")) THEN [st EXCEPT !.error = TRUE]
    ELSE [st EXCEPT !.prices = Append(@, price_row(split(line, "|")))]

parse_risk(st, line) ==
    IF ~Contains(line, VolLabel) \/ Len(split(line, "|")) # 3 THEN st
    ELSE IF ~has_values(split(line, "|")) THEN [st EXCEPT !.error = TRUE]
    ELSE [st EXCEPT !.risk = Append(@, risk_row(split(line, "|")))]

parse_portfolio(st, line) ==
    IF ~Contains(line, PortfolioLabel) \/ Len(split(line, "|")) # 3 THEN st
    ELSE IF ~has_values(split(line, "|")) THEN [st EXCEPT !.error = TRUE]
    ELSE [st EXCEPT !.portfolio = <<portfolio_row(split(line, "|"))>>]

\* the if / elif chain on a stripped line that is not empty
parse_stripped(st, line) ==
    IF StartsWith(line, GeneratedLabel)
    THEN [st EXCEPT !.generated = split(strip(Remove(line, GeneratedLabel)), " ")[1]]
    ELSE IF StartsWith(line, WindowLabel)
    THEN [st EXCEPT !.window = strip(Remove(line, WindowLabel))]
    ELSE IF Contains(line, PricesMark) THEN [st EXCEPT !.section = "prices"]
    ELSE IF Contains(line, RiskMark) THEN [st EXCEPT !.section = "risk"]
    ELSE IF Contains(line, PortfolioTitle) THEN [st EXCEPT !.section = "portfolio"]
    ELSE IF StartsWith(line, FiveDashes) \/ StartsWith(line, FiveEquals) THEN st
    ELSE IF st.section = "prices" THEN parse_prices(st, line)
    ELSE IF st.section = "risk" THEN parse_risk(st, line)
    ELSE IF st.section = "portfolio" THEN parse_portfolio(st, line)
    ELSE st

\* the body of the loop; an exception raised on an earlier line has ended it
parse_line(st, raw) ==
    IF st.error \/ strip(raw) = << >> THEN st ELSE parse_stripped(st, strip(raw))

RECURSIVE ParseUpTo(_, _, _)
ParseUpTo(st, lines, k) ==
    IF k = 0 THEN st ELSE parse_line(ParseUpTo(st, lines, k - 1), lines[k])

\* content.split('\n') and the loop over the lines
parse(content) ==
    ParseUpTo([NotParsed EXCEPT !.read = TRUE, !.content = content],
              content, Len(content))

\* the Daily Reports page: the report file is read and parsed when there is
\* one, otherwise the page says that no report was found
DailyReportsPage ==
    /\ parsed_data' = IF report_file.exists THEN parse(report_file.content)
                      ELSE NotParsed
    /\ UNCHANGED <<report_run, report_file>>

-----------------------------------------------------------------------------
(* shared/metrics.py and the local metrics of quant_b/analysis_quantb.py.     *)
(* A result that is a quotient by a standard deviation involves square roots; *)
(* it is held as its signed square x * |x|, which determines x and keeps 0,   *)
(* the sign, the infinities and NaN.  A standard deviation is held as the     *)
(* variance, which is 0 or NaN exactly when the standard deviation is.        *)

TRADING_DAYS == 252

\* Longest series the metric functions are applied to.
MaxSeries == 4

\* returns (or values of a cumulative series) of the series
SeriesValues ==
    {<<-1, 10>>, <<-1, 20>>, Zero, One, <<11, 10>>, <<21, 20>>, <<6, 5>>}

\* risk-free rates, per day
RiskFreeRates == {Zero, <<1, 20>>}

RECURSIVE FSum(_)
FSum(values) ==
    IF Len(values) = 0 THEN Zero
    ELSE FAdd(FSum(SubSeq(values, 1, Len(values) - 1)), values[Len(values)])

\* Series.mean(): NaN on an empty series
Mean(values) ==
    IF Len(values) = 0 THEN NaN ELSE FDiv(FSum(values), Num(Len(values)))

SquaredDeviations(values, mean) ==
    [i \in 1..Len(values) |-> FMul(FSub(values[i], mean), FSub(values[i], mean))]

\* the square of Series.std() (ddof=1): NaN on fewer than two values
Variance(values) ==
    IF Len(values) < 2 THEN NaN
    ELSE FDiv(FSum(SquaredDeviations(values, Mean(values))), Num(Len(values) - 1))

\* excess / std * np.sqrt(252), as its signed square
AnnualizedRatio(excess, variance) ==
    FMul(FMul(excess, FAbs(excess)), FDiv(Num(TRADING_DAYS), variance))

\* what a call gave: a returned value, or an exception
Return(value) == [kind |-> "return", value |-> value]

NotCalled == [kind |-> "none", value |-> NaN]

calculate_sharpe_ratio(daily_returns, risk_free_rate) ==
    IF Variance(daily_returns) = Zero THEN Return(Zero)
    ELSE Return(AnnualizedRatio(FSub(Mean(daily_returns), risk_free_rate),
                                Variance(daily_returns)))

\* daily_returns < target_return, with the default target_return=0.0
IsDownside(x) == FGt(Zero, x)

downside_returns(daily_returns) == SelectSeq(daily_returns, IsDownside)

calculate_sortino_ratio(daily_returns, risk_free_rate) ==
    IF Variance(downside_returns(daily_returns)) = Zero
       \/ IsNaN(Variance(downside_returns(daily_returns)))
    THEN Return(Zero)
    ELSE Return(AnnualizedRatio(FSub(Mean(daily_returns), risk_free_rate),
                                Variance(downside_returns(daily_returns))))

\* returns - rf_daily
excess_returns(values, rf_daily) ==
    [i \in 1..Len(values) |-> FSub(values[i], rf_daily)]

\* _sharpe of the portfolio engine, on the daily rate that line 98 derives
\* from rf_annual
_sharpe(values, rf_daily) ==
    IF Len(values) = 0 THEN Return(NaN)
    ELSE IF Variance(excess_returns(values, rf_daily)) = Zero
            \/ IsNaN(Variance(excess_returns(values, rf_daily)))
    THEN Return(NaN)
    ELSE Return(AnnualizedRatio(Mean(excess_returns(values, rf_daily)),
                                Variance(excess_returns(values, rf_daily))))

FMax(x, y) == IF IsNaN(x) THEN y ELSE IF FGt(y, x) THEN y ELSE x

FMin(x, y) == IF IsNaN(x) THEN y ELSE IF FGt(x, y) THEN y ELSE x

RECURSIVE RunningMax(_, _)
RunningMax(values, i) ==
    IF i = 1 THEN values[1] ELSE FMax(RunningMax(values, i - 1), values[i])

\* mutant of cummax: the first value in place of the running maximum
cummax_first(values) == [i \in 1..Len(values) |-> values[1]]

\* Series.cummax()
cummax(values) == [i \in 1..Len(values) |-> RunningMax(values, i)]

\* (series / series.cummax()) - 1.0
drawdown(values) ==
    [i \in 1..Len(values) |-> FSub(FDiv(values[i], cummax(values)[i]), One)]

RECURSIVE MinUpTo(_, _)
MinUpTo(values, i) ==
    IF i = 1 THEN values[1] ELSE FMin(MinUpTo(values, i - 1), values[i])

\* Series.min(): NaN on an empty series
series_min(values) ==
    IF Len(values) = 0 THEN NaN ELSE MinUpTo(values, Len(values))

calculate_max_drawdown(price_series) == Return(series_min(drawdown(price_series)))

\* mutant of _max_drawdown: 0.0 on an empty series
_max_drawdown_zero_on_empty(cum) ==
    IF Len(cum) = 0 THEN Return(Zero) ELSE Return(series_min(drawdown(cum)))

\* _max_drawdown of the portfolio engine
_max_drawdown(cum) ==
    IF Len(cum) = 0 THEN Return(NaN) ELSE Return(series_min(drawdown(cum)))

\* (1.0 + returns).cumprod()
growth(rets) == CumprodUpTo(rets, [k \in 1..Len(rets) |-> k], Len(rets))

\* scripts/daily_report.py max_drawdown(returns)
max_drawdown(rets) ==
    IF Len(rets) = 0 THEN Return(NaN) ELSE Return(series_min(drawdown(growth(rets))))

\* the daily returns the drawdown of a return series is computed for
DailyReturns == {<<-1, 10>>, Zero, One}

IsReturnSeries(values) == \A t \in 1..Len(values) : values[t] \in DailyReturns

NoMetrics ==
    [called |-> 0, sharpe |-> NotCalled, sortino |-> NotCalled,
     local_sharpe |-> NotCalled, max_drawdown |-> NotCalled,
     local_max_drawdown |-> NotCalled, report_max_drawdown |-> NotCalled,
     portfolio_max_drawdown |-> NotCalled]

InitMetrics ==
    /\ series \in [values : SeqsUpTo(SeriesValues, MaxSeries), rate : RiskFreeRates]
    /\ metrics = NoMetrics
    /\ report_run = << >>
    /\ report_file = << >>
    /\ parsed_data = << >>
    /\ run = << >>
    /\ screen = << >>
    /\ clock = 0
    /\ generation = 0
    /\ data_caches = << >>
    /\ value_locks = << >>
    /\ call = << >>
    /\ downloads = << >>
    /\ pc = "input"
    /\ df = << >>
    /\ params = NoParams
    /\ df_strat = NoTable
    /\ cum_strat = NoSeries
    /\ returns = NoReturns
    /\ request = NoRequest
    /\ rebal_log = << >>
    /\ backtest = NoBacktest

\* the functions are applied to the series one after the other
CallSharpe ==
    /\ metrics.called = 0
    /\ metrics' = [metrics EXCEPT !.called = 1,
                     !.sharpe = calculate_sharpe_ratio(series.values, series.rate)]
    /\ UNCHANGED series

CallSortino ==
    /\ metrics.called = 1
    /\ metrics' = [metrics EXCEPT !.called = 2,
                     !.sortino = calculate_sortino_ratio(series.values, series.rate)]
    /\ UNCHANGED series

CallLocalSharpe ==
    /\ metrics.called = 2
    /\ metrics' = [metrics EXCEPT !.called = 3,
                     !.local_sharpe = _sharpe(series.values, series.rate)]
    /\ UNCHANGED series

CallMaxDrawdown ==
    /\ metrics.called = 3
    /\ metrics' = [metrics EXCEPT !.called = 4,
                     !.max_drawdown = calculate_max_drawdown(series.values)]
    /\ UNCHANGED series

CallLocalMaxDrawdown ==
    /\ metrics.called = 4
    /\ metrics' = [metrics EXCEPT !.called = 5,
                     !.local_max_drawdown = _max_drawdown(series.values)]
    /\ UNCHANGED series

\* generate_report: mdd = max_drawdown(r), the series taken as daily returns
CallReportMaxDrawdown ==
    /\ metrics.called = 5
    /\ IsReturnSeries(series.values)
    /\ metrics' = [metrics EXCEPT !.called = 6,
                     !.report_max_drawdown = max_drawdown(series.values)]
    /\ UNCHANGED series

\* _backtest_portfolio and the metrics of the page: port_val =
\* (1.0 + port_rets).cumprod(), then _max_drawdown(port_val)
CallPortfolioMaxDrawdown ==
    /\ metrics.called = 6
    /\ metrics' = [metrics EXCEPT !.called = 7,
                     !.portfolio_max_drawdown = _max_drawdown(growth(series.values))]
    /\ UNCHANGED series

-----------------------------------------------------------------------------
(* Specifications *)

NextQuantA ==
    \/ RunMomentum /\ UNCHANGED <<quantB_vars, cache_vars, page_vars, report_vars, metrics_vars>>
    \/ RunADX /\ UNCHANGED <<quantB_vars, cache_vars, page_vars, report_vars, metrics_vars>>

SpecQuantA == InitQuantA /\ [][NextQuantA]_vars

\* closing prices that put the ratio below, at and above the threshold
KaufmanLevels == {1, 7, 14}

KaufmanBar(p) == [Low |-> p, Close |-> p, High |-> p]

KaufmanTables ==
    UNION {{[t \in 1..n |-> KaufmanBar(s[t])] : s \in SeqsOfLen(KaufmanLevels, n)} :
              n \in 1..MaxLen}

\* a price table that is not empty has been loaded
InitKaufman ==
    /\ pc = "input"
    /\ df \in KaufmanTables
    /\ params = NoParams
    /\ df_strat = NoTable
    /\ cum_strat = NoSeries
    /\ returns = NoReturns
    /\ request = NoRequest
    /\ rebal_log = << >>
    /\ backtest = NoBacktest
    /\ clock = 0
    /\ generation = 0
    /\ data_caches = << >>
    /\ value_locks = << >>
    /\ call = << >>
    /\ downloads = << >>
    /\ run = << >>
    /\ screen = << >>
    /\ report_run = << >>
    /\ report_file = << >>
    /\ parsed_data = << >>
    /\ series = << >>
    /\ metrics = << >>

\* run_quant_a: er = calculate_kaufman_efficiency_ratio(df['Close'], period) and
\* the recommendation; the page passes period=30, drawn here from the window
\* lengths the tables can hold
RunKaufman ==
    /\ pc = "input"
    /\ \E period \in 1..MaxWindow :
          params' = regime(df, period,
                           calculate_kaufman_efficiency_ratio(Column(df, "Close"), period))
    /\ pc' = "kaufman"
    /\ UNCHANGED <<df, df_strat, cum_strat>>

NextKaufman ==
    \/ RunKaufman /\ UNCHANGED <<quantB_vars, cache_vars, page_vars, report_vars, metrics_vars>>

SpecKaufman == InitKaufman /\ [][NextKaufman]_vars

NextQuantB == RunBacktestPortfolio /\ UNCHANGED <<quantA_vars, cache_vars, page_vars, report_vars, metrics_vars>>

SpecQuantB == InitQuantB /\ [][NextQuantB]_vars

NextCache ==
    \/ \E s \in Sessions : StartRun(s) /\ UNCHANGED <<pc, quantA_vars, quantB_vars, page_vars, report_vars, metrics_vars>>
    \/ \E s \in Sessions : ReadResult(s) /\ UNCHANGED <<pc, quantA_vars, quantB_vars, page_vars, report_vars, metrics_vars>>
    \/ \E s \in Sessions : ComputeValue(s) /\ UNCHANGED <<pc, quantA_vars, quantB_vars, page_vars, report_vars, metrics_vars>>
    \/ \E s \in Sessions : Download(s) /\ UNCHANGED <<pc, quantA_vars, quantB_vars, page_vars, report_vars, metrics_vars>>
    \/ \E s \in Sessions : WriteResult(s) /\ UNCHANGED <<pc, quantA_vars, quantB_vars, page_vars, report_vars, metrics_vars>>
    \/ \E s \in Sessions : Refresh(s) /\ UNCHANGED <<pc, quantA_vars, quantB_vars, page_vars, report_vars, metrics_vars>>
    \/ Tick /\ UNCHANGED <<pc, quantA_vars, quantB_vars, page_vars, report_vars, metrics_vars>>

SpecCache == InitCache /\ [][NextCache]_vars

NextPages ==
    \/ QuantBSidebar /\ UNCHANGED <<pc, quantA_vars, quantB_vars, cache_vars, report_vars, metrics_vars>>
    \/ LoadPrices /\ UNCHANGED <<pc, quantA_vars, quantB_vars, cache_vars, report_vars, metrics_vars>>
    \/ QuantBCheckPrices /\ UNCHANGED <<pc, quantA_vars, quantB_vars, cache_vars, report_vars, metrics_vars>>
    \/ QuantBBacktest /\ UNCHANGED <<pc, quantA_vars, quantB_vars, cache_vars, report_vars, metrics_vars>>
    \/ QuantACheckData /\ UNCHANGED <<pc, quantA_vars, quantB_vars, cache_vars, report_vars, metrics_vars>>
    \/ QuantAStrategy /\ UNCHANGED <<pc, quantA_vars, quantB_vars, cache_vars, report_vars, metrics_vars>>
    \/ QuantAForecast /\ UNCHANGED <<pc, quantA_vars, quantB_vars, cache_vars, report_vars, metrics_vars>>
    \/ QuantAPlot /\ UNCHANGED <<pc, quantA_vars, quantB_vars, cache_vars, report_vars, metrics_vars>>
    \/ QuantAMetrics /\ UNCHANGED <<pc, quantA_vars, quantB_vars, cache_vars, report_vars, metrics_vars>>

SpecPages == InitPages /\ [][NextPages]_vars

NextReport ==
    \/ ReportLoadPrices /\ UNCHANGED <<pc, quantA_vars, quantB_vars, cache_vars, page_vars, metrics_vars>>
    \/ ReportCompute /\ UNCHANGED <<pc, quantA_vars, quantB_vars, cache_vars, page_vars, metrics_vars>>
    \/ ReportOpen /\ UNCHANGED <<pc, quantA_vars, quantB_vars, cache_vars, page_vars, metrics_vars>>
    \/ ReportWrite /\ UNCHANGED <<pc, quantA_vars, quantB_vars, cache_vars, page_vars, metrics_vars>>
    \/ DailyReportsPage /\ UNCHANGED <<pc, quantA_vars, quantB_vars, cache_vars, page_vars, metrics_vars>>

SpecReport == InitReport /\ [][NextReport]_vars

NextMetrics ==
    \/ CallSharpe /\ UNCHANGED <<pc, quantA_vars, quantB_vars, cache_vars, page_vars, report_vars>>
    \/ CallSortino /\ UNCHANGED <<pc, quantA_vars, quantB_vars, cache_vars, page_vars, report_vars>>
    \/ CallLocalSharpe /\ UNCHANGED <<pc, quantA_vars, quantB_vars, cache_vars, page_vars, report_vars>>
    \/ CallMaxDrawdown /\ UNCHANGED <<pc, quantA_vars, quantB_vars, cache_vars, page_vars, report_vars>>
    \/ CallLocalMaxDrawdown /\ UNCHANGED <<pc, quantA_vars, quantB_vars, cache_vars, page_vars, report_vars>>
    \/ CallReportMaxDrawdown /\ UNCHANGED <<pc, quantA_vars, quantB_vars, cache_vars, page_vars, report_vars>>
    \/ CallPortfolioMaxDrawdown /\ UNCHANGED <<pc, quantA_vars, quantB_vars, cache_vars, page_vars, report_vars>>

SpecMetrics == InitMetrics /\ [][NextMetrics]_vars

-----------------------------------------------------------------------------
(* Claims about the single-asset backtests (checked under SpecQuantA) *)

Ran == pc \in {"momentum", "adx"}

\* the price return of bar t, from the price table itself
PriceReturn(t) == FSub(FDiv(Num(df[t].Close), Num(df[t-1].Close)), One)

\* the value of the returned curve before its k-th entry (base 1.0)
CurveBefore(k) == IF k = 1 THEN One ELSE cum_strat.values[k-1]

\* C1: in both backtests, every bar t kept in the returned curve grows the curve
\* by 1 + signal[t-1] * return[t]: the strategy return of bar t is the signal of
\* the bar before times the price return of bar t.
C1_LaggedSignal ==
    Ran => \A k \in 1..Len(cum_strat.index) :
              LET t == cum_strat.index[k]
              IN  /\ t > 1
                  /\ cum_strat.values[k] =
                        FMul(CurveBefore(k),
                             FAdd(One, FMul(df_strat.Signal[t-1], PriceReturn(t))))

\* C1 witness: an ADX run keeps a bar whose signal differs from the signal of the
\* bar before it, with a price move on that bar and the position open before it.
C1_Witness ==
    /\ pc = "adx"
    /\ \E k \in 1..Len(cum_strat.index) :
          LET t == cum_strat.index[k]
          IN  /\ t > 1
              /\ df_strat.Signal[t-1] = One
              /\ df_strat.Signal[t] = Zero
              /\ PriceReturn(t) # Zero

\* the table that differs from df in bar j only
WithBar(j, b) == [df EXCEPT ![j] = b]

\* the Signal column the run in the current state would compute on another table
SignalOn(table) ==
    IF pc = "momentum"
    THEN momentum_table(Column(table, "Close"), params.short_window, params.long_window).Signal
    ELSE adx_table(table, params.window, params.adx_threshold).Signal

\* C2: no look-ahead.  The momentum and the ADX signal of bars 1..t computed on
\* the whole price table are the signal computed on the table cut after bar t,
\* for every bar t before the last: two series that agree up to bar t have the
\* same cut, so whatever differs after bar t, their signals up to bar t are
\* identical.
C2_NoLookAhead ==
    Ran => \A t \in 1..(Len(df) - 1) :
              SignalOn(SubSeq(df, 1, t)) = SubSeq(df_strat.Signal, 1, t)

\* C2 witness: two runs on tables that differ in one bar j only: the signal of
\* bar j differs between them, and an earlier bar carries an open position.
C2_Witness ==
    /\ Ran
    /\ \E j \in 2..Len(df) : \E b \in Bars :
          /\ SignalOn(WithBar(j, b))[j] # df_strat.Signal[j]
          /\ \E t \in 1..(j-1) : df_strat.Signal[t] = One

\* C3: a non-empty returned equity curve starts at exactly 1.0 and is never
\* negative, in both backtests.
C3_CurveBase ==
    (Ran /\ Len(cum_strat.values) > 0) =>
        /\ cum_strat.values[1] = One
        /\ \A k \in 1..Len(cum_strat.values) : FGe(cum_strat.values[k], Zero)

\* C3 witness: a returned curve of several bars that falls below 1.0.
C3_Witness ==
    /\ Ran
    /\ Len(cum_strat.values) >= 2
    /\ \E k \in 1..Len(cum_strat.values) : FGt(One, cum_strat.values[k])

\* the entry and exit conditions of the ADX rule on bar t of the computed table
Entry(t) ==
    /\ FGt(df_strat.DI_plus[t], df_strat.DI_minus[t])
    /\ FGt(df_strat.ADX[t], Num(params.adx_threshold))

Exit(t) == FGt(df_strat.DI_minus[t], df_strat.DI_plus[t])

\* C4: ADX rule on trigger bars: entry (+DI > -DI and ADX > threshold) gives
\* signal 1.0, exit (-DI > +DI) gives 0.0 whatever ADX is, and the signal is
\* always 0.0 or 1.0.
C4_TriggerRule ==
    pc = "adx" => \A t \in 1..Len(df) :
        /\ Entry(t) => df_strat.Signal[t] = One
        /\ Exit(t) => df_strat.Signal[t] = Zero
        /\ df_strat.Signal[t] \in {Zero, One}

\* C4 witness: the position is open, and closes on an exit bar on which ADX is
\* defined and not above the threshold.
C4_Witness ==
    /\ pc = "adx"
    /\ \E t \in 2..Len(df) :
          /\ Exit(t)
          /\ FGe(Num(params.adx_threshold), df_strat.ADX[t])
          /\ df_strat.Signal[t-1] = One
          /\ df_strat.Signal[t] = Zero

\* C5: ADX signal hold: a bar with neither entry nor exit keeps the signal of
\* the bar before; an open position stays open until the first exit bar; the
\* signal is 0.0 on every bar up to which no entry has happened.
C5_SignalHold ==
    pc = "adx" =>
        /\ \A t \in 2..Len(df) :
              (~Entry(t) /\ ~Exit(t)) => df_strat.Signal[t] = df_strat.Signal[t-1]
        /\ \A t \in 1..Len(df) : \A u \in t..Len(df) :
              (df_strat.Signal[t] = One /\ \A v \in (t+1)..u : ~Exit(v))
                  => df_strat.Signal[u] = One
        /\ \A t \in 1..Len(df) :
              (\A v \in 1..t : ~Entry(v)) => df_strat.Signal[t] = Zero

\* C5 witness: the position stays open on a bar where +DI > -DI but ADX is
\* defined and not above the threshold.
C5_Witness ==
    /\ pc = "adx"
    /\ \E t \in 2..Len(df) :
          /\ df_strat.Signal[t-1] = One
          /\ FGt(df_strat.DI_plus[t], df_strat.DI_minus[t])
          /\ FGe(Num(params.adx_threshold), df_strat.ADX[t])
          /\ df_strat.Signal[t] = One

-----------------------------------------------------------------------------
(* Claims about the portfolio backtest (checked under SpecQuantB) *)

\* a backtest has run on a non-empty return table
Backtested == pc = "portfolio" /\ Len(returns.index) > 0

\* the custom input of ticker i after clamping at 0 (0 when none was supplied)
ClampedInput(i) ==
    IF Tickers[i] \in DOMAIN request.user_weights /\ request.user_weights[Tickers[i]] > 0
    THEN request.user_weights[Tickers[i]]
    ELSE 0

ClampedSum == ClampedInput(1) + ClampedInput(2) + ClampedInput(3)

\* the weight vector the request asks for
ExpectedWeights ==
    [i \in 1..Len(Tickers) |->
        IF request.weight_mode = "equal" THEN <<1, Len(Tickers)>>
        ELSE IF ClampedSum = 0 THEN Zero
        ELSE Norm(ClampedInput(i), ClampedSum)]

\* C6: with rebalance frequency "none" the schedule is exactly the first date of
\* the return table, and every date of the table carries the same weight vector,
\* the one computed at that first date.
C6_NoRebalance ==
    (Backtested /\ request.rebalance = "none") =>
        /\ rebal_log = <<returns.index[1]>>
        /\ backtest.weights_ts.index = returns.index
        /\ \A k \in 1..Len(backtest.weights_ts.rows) :
              /\ backtest.weights_ts.rows[k] = backtest.weights_ts.rows[1]
              /\ \A i \in 1..Len(Tickers) :
                    backtest.weights_ts.rows[k][i] = ExpectedWeights[i]

\* C6 witness: no rebalancing over a table that spans two weeks and two months,
\* with unequal custom weights.
C6_Witness ==
    /\ Backtested
    /\ request.rebalance = "none"
    /\ request.weight_mode = "custom"
    /\ \E i, j \in 1..Len(Tickers) : ClampedInput(i) > ClampedInput(j) /\ ClampedInput(j) > 0
    /\ Len(backtest.weights_ts.index) >= 3
    /\ \E d, e \in Range(returns.index) :
          WeekLabel(d) # WeekLabel(e) /\ MonthLabel(d) # MonthLabel(e)

\* the calendar bucket (week or month) of a date under the requested frequency
Bucket(d) == IF request.rebalance = "W" THEN WeekLabel(d) ELSE MonthLabel(d)

\* the first date of the return table that falls in the bucket of date d
FirstInBucket(d) ==
    CHOOSE x \in Range(returns.index) :
        /\ Bucket(x) = Bucket(d)
        /\ \A y \in Range(returns.index) : Bucket(y) = Bucket(d) => x <= y

\* C7: with weekly or monthly rebalancing the dates at which the backtest resets
\* the weights are the first trading dates of the calendar weeks or months of the
\* return table, one per week or month that holds a trading date.
C7_FirstDateOfBucket ==
    (Backtested /\ request.rebalance \in {"W", "M"}) =>
        /\ Range(rebal_log) = {FirstInBucket(d) : d \in Range(returns.index)}
        /\ Len(rebal_log) = Cardinality({Bucket(d) : d \in Range(returns.index)})

\* C8: for every frequency the first date of the horizon is a rebalance date, and
\* the weight schedule, the portfolio returns and the portfolio values begin at
\* the first date of the return table and hold every date of it.
C8_FirstDateIncluded ==
    Backtested =>
        /\ rebal_log[1] = returns.index[1]
        /\ backtest.weights_ts.index = returns.index
        /\ backtest.port_rets.index = returns.index
        /\ backtest.port_val.index = returns.index

\* C9: every row of the weight schedule is, in equal mode, 1/N per symbol, and in
\* custom mode with a strictly positive input, the inputs clamped at 0 divided by
\* their sum (0 for a symbol without input): all components >= 0, summing to 1.
C9_WeightRows ==
    pc = "portfolio" =>
        \A k \in 1..Len(backtest.weights_ts.rows) :
            LET row == backtest.weights_ts.rows[k]
            IN  (request.weight_mode = "equal" \/ ClampedSum > 0) =>
                    /\ \A i \in 1..Len(Tickers) :
                          /\ FGe(row[i], Zero)
                          /\ row[i] = ExpectedWeights[i]
                    /\ row_sum(row) = One

\* C9 witness: custom weights with a negative input, a symbol without input and
\* a positive input, and a weight schedule of several dates.
C9_Witness ==
    /\ pc = "portfolio"
    /\ request.weight_mode = "custom"
    /\ \E t \in DOMAIN request.user_weights : request.user_weights[t] < 0
    /\ \E t \in Range(Tickers) : t \notin DOMAIN request.user_weights
    /\ ClampedSum > 0
    /\ Len(backtest.weights_ts.rows) >= 2

\* C10: when the custom weights clamped at 0 sum to zero, every row of the
\* weight schedule is the zero vector and the portfolio return is 0 at every
\* date of the schedule, which holds at least one date.
C10_DegenerateWeights ==
    (Backtested /\ request.weight_mode = "custom" /\ ClampedSum = 0) =>
        /\ Len(backtest.weights_ts.rows) > 0
        /\ Len(backtest.port_rets.values) = Len(backtest.weights_ts.rows)
        /\ \A k \in 1..Len(backtest.weights_ts.rows) :
              /\ \A i \in 1..Len(Tickers) : backtest.weights_ts.rows[k][i] = Zero
              /\ backtest.port_rets.values[k] = Zero

\* C10 witness: custom inputs with a negative and no positive value, on a return
\* table of several dates.
C10_Witness ==
    /\ Backtested
    /\ request.weight_mode = "custom"
    /\ ClampedSum = 0
    /\ \E t \in DOMAIN request.user_weights : request.user_weights[t] < 0
    /\ Len(backtest.port_rets.values) >= 2

-----------------------------------------------------------------------------
(* Claims about the cached price fetch (checked under SpecCache) *)

\* two downloads of the same key made through the same cache, that is by calls
\* with no Refresh between them
SameWindow(i, j) ==
    /\ downloads[i].key = downloads[j].key
    /\ downloads[i].gen = downloads[j].gen

\* the loads that have returned
Loaded(s) == call[s].pc = "done"

\* C11: two downloads from the provider for the same (symbols, period, interval)
\* key, made through the same cache (no Refresh between the calls), start at
\* least 300 seconds apart, so a key is fetched once per freshness window; and,
\* as long as Refresh has not been pressed, every load that returns hands back
\* the result of that fetch: the value is a download of its own key, and no
\* later download of that key had started when the load returned.
C11_SingleFetch ==
    /\ \A i, j \in DOMAIN downloads :
          (i < j /\ SameWindow(i, j)) =>
              downloads[j].start - downloads[i].start >= ttl
    /\ \A s \in Sessions :
          Loaded(s) =>
              /\ call[s].value \in DOMAIN downloads
              /\ downloads[call[s].value].key = call[s].key
              /\ \A j \in DOMAIN downloads :
                    ( /\ generation = 0
                      /\ j > call[s].value
                      /\ downloads[j].key = call[s].key ) =>
                        downloads[j].start >= call[s].returned

\* C11 witness: two sessions have loaded the same key at different times and
\* both hold the result of the only download made for it.
C11_Witness ==
    \E s, t \in Sessions :
        /\ s # t
        /\ Loaded(s) /\ Loaded(t)
        /\ call[s].key = call[t].key
        /\ call[s].value = call[t].value
        /\ call[s].returned < call[t].returned
        /\ Cardinality({i \in DOMAIN downloads : downloads[i].key = call[s].key}) = 1

\* C12: Refresh invalidates the cached results of every key.  Whatever the
\* caches hold after a Refresh was downloaded after it, for every function and
\* key; and a load that starts after a Refresh returns, whatever its key, a
\* result whose download finished after that Refresh, never one cached before.
C12_RefreshInvalidatesAll ==
    /\ \A f \in Functions : \A k \in AllKeys :
          data_caches[generation][f][k].download # 0 =>
              downloads[data_caches[generation][f][k].download].done_gen >= generation
    /\ \A s \in Sessions :
          Loaded(s) => downloads[call[s].value].done_gen >= call[s].gen

\* C12 witness: a key other than the one of the refreshing request was cached
\* before a Refresh; a load of that key after the Refresh, still within 300
\* seconds of the first download, returns a new download.
C12_Witness ==
    \E s \in Sessions : \E i \in DOMAIN downloads :
        /\ Loaded(s)
        /\ call[s].gen = 1
        /\ call[s].key \notin KeysOf("quant_b")
        /\ downloads[i].key = call[s].key
        /\ downloads[i].done_gen = 0
        /\ call[s].returned - downloads[i].start < ttl
        /\ call[s].value # i
-----------------------------------------------------------------------------
(* Claims about the script runs of the pages (checked under SpecPages) *)

\* the price fetch of the run has returned an empty table
LoadedEmpty == run.download # "none" /\ run.pc # "raised" /\ IsEmpty(run.prices)

OnScreen(element) == element \in Range(screen)

\* the error a page reports for an empty table
EmptyTableError ==
    IF run.page = "quant_a" THEN "error: Ticker not found or no data available"
    ELSE "error: No data returned"

\* C13: a download that raises does not make the price fetch raise: the fetch
\* returns an empty table.  A run of run_quant_a or run_quant_b that receives an
\* empty table reports an error and ends: no backtest is computed and the
\* provider was called at most once in the run, never again after the failure.
C13_EmptyOnFailure ==
    /\ run.download = "raise" => (run.raised = "none" /\ LoadedEmpty)
    /\ LoadedEmpty =>
          /\ run.raised = "none"
          /\ run.backtests = << >>
          /\ run.provider_calls <= 1
          /\ run.pc \in {"loaded", "stopped", "returned"}
          /\ run.pc # "loaded" => OnScreen(EmptyTableError)

\* C13 witness: the download of a portfolio run raised, the provider was called
\* once, and the run has stopped with the error on the screen.
C13_Witness ==
    /\ run.page = "quant_b"
    /\ run.download = "raise"
    /\ run.provider_calls = 1
    /\ run.pc = "stopped"
    /\ OnScreen("error: No data returned")

\* the distinct symbols of a backtest
Symbols(columns) == Range(columns)

\* the requested tickers that are columns of the price table the run received
RequestedColumns == Range(run.tickers) \cap Range(run.prices.columns)

\* C14: a run of the portfolio page never raises and never backtests fewer than
\* 3 symbols; when fewer than 3 tickers are entered, or fewer than 3 of the
\* requested tickers are columns of the price table it received, the run shows
\* a warning or an error and stops.
C14_AtLeastThreeSymbols ==
    run.page = "quant_b" =>
        /\ run.raised = "none"
        /\ \A i \in 1..Len(run.backtests) :
              Cardinality(Symbols(run.backtests[i])) >= 3
        /\ ( /\ run.pc \notin {"sidebar", "load", "loaded"}
             /\ \/ Cardinality(Range(run.tickers)) < 3
                \/ (run.download # "none" /\ Cardinality(RequestedColumns) < 3) ) =>
              /\ run.pc = "stopped"
              /\ \E i \in 1..Len(screen) :
                    screen[i] \in {"warning: Please select at least 3 assets",
                                   "error: No data returned",
                                   "error: Data source returned fewer than 3 valid assets"}

\* a statement of the try block of the ARIMA forecast has raised
ArimaRaised == run.arima \in Range(ArimaSteps)

ForecastTraces ==
    {"trace: ARIMA Forecast (Extrapolated)", "trace: upper", "trace: Confidence Interval"}

\* C15: when a statement of the ARIMA try block raises (the fit, the forecast,
\* or the reading of its mean, interval or dates), the run of run_quant_a does
\* not raise: the figure holds the strategy and the buy-and-hold curves and no
\* trace of the forecast, and the four performance metrics are reported.
C15_ForecastOmitted ==
    ArimaRaised =>
        /\ run.raised = "none"
        /\ run.pc \in {"plot", "metrics", "rendered"}
        /\ \A e \in ForecastTraces : ~OnScreen(e)
        /\ run.pc \in {"metrics", "rendered"} =>
              /\ OnScreen("trace: Momentum Strategy")
              /\ OnScreen("trace: Buy & Hold (Asset)")
        /\ run.pc = "rendered" =>
              /\ OnScreen("metric: Total Return")
              /\ OnScreen("metric: Sharpe Ratio")
              /\ OnScreen("metric: Sortino Ratio")
              /\ OnScreen("metric: Max Drawdown")

\* C15 witness: the interval of the forecast raised after its mean was assigned,
\* and the run has rendered the page.
C15_Witness ==
    /\ run.arima = "conf_int"
    /\ run.forecast_mean # "None"
    /\ run.pc = "rendered"

\* the text is a whole report: it opens with the rule and the title of the
\* header and closes with the portfolio line and the empty last line
WholeReport(content) ==
    /\ Len(content) >= 5
    /\ content[1] = RuleEquals
    /\ content[2] = TitleText
    /\ StartsWith(content[Len(content) - 1], PortfolioLabel)
    /\ content[Len(content)] = << >>

\* C16: generate_report writes the report file as its last step.  When the
\* price loading or a computation before the write has raised, the daily_report
\* file is what it was when the run started: it was not created and an earlier
\* report was not modified.  Hence a report file that exists holds a whole
\* report, in every state but the one between open(out_path, "w") and the
\* write of a run whose computations have all succeeded.
C16_WrittenLast ==
    /\ CurrentStep = "raised" => report_file = report_run.before
    /\ (report_file.exists /\ CurrentStep # "write") => WholeReport(report_file.content)

\* a computation raised after the prices were loaded, with a report of an
\* earlier run on disk
C16_Witness ==
    /\ CurrentStep = "raised"
    /\ report_run.step = 2
    /\ report_run.before = OldReport
    /\ report_file = OldReport

\* the texts generate_report wrote for the frames, without the padding
WrittenPrices(table) ==
    [i \in 1..Len(table.columns) |->
        [Ticker |-> TICKERS[table.columns[i]],
         Open |-> format_f(table.row[i].open, 4),
         Close |-> format_f(table.row[i].close, 4)]]

WrittenRisk(table) ==
    [i \in 1..Len(table.columns) |->
        [Ticker |-> TICKERS[table.columns[i]],
         Volatility |-> format_percent(table.row[i].vol, 2),
         MaxDrawdown |-> format_percent(table.row[i].mdd, 2)]]

WrittenPortfolio(table) ==
    << [Volatility |-> format_percent(table.portfolio.vol, 2),
        MaxDrawdown |-> format_percent(table.portfolio.mdd, 2)] >>

\* the text is nan or has exactly d digits after the point
HasDecimals(text, d) ==
    \/ text = <<"n", "a", "n">>
    \/ /\ Len(split(text, ".")) = 2
       /\ Len(split(text, ".")[2]) = d
       /\ \A i \in 1..d : split(text, ".")[2][i] \in Range(DigitChars)

IsPercent(text, d) ==
    /\ Len(text) > 0
    /\ text[Len(text)] = "%"
    /\ HasDecimals(SubSeq(text, 1, Len(text) - 1), d)

IsDataLine(line) ==
    Contains(line, OpenLabel) \/ Contains(line, VolLabel)

\* the page has parsed the report that the finished run wrote
ParsedWritten ==
    /\ CurrentStep = "done"
    /\ parsed_data.read
    /\ parsed_data.content = report_file.content

\* C17: report round trip.  When the Daily Reports page parses a report written
\* by generate_report, it recovers for every symbol the open, close, volatility
\* and max drawdown texts that were written (prices with 4 decimals,
\* percentages with 2), in the order of the symbols, and the two texts of the
\* equal-weight portfolio line, without an exception; every data line of the
\* report splits into exactly 3 fields on "|".
C17_RoundTrip ==
    ParsedWritten =>
        /\ ~parsed_data.error
        /\ parsed_data.prices = WrittenPrices(report_run.table)
        /\ parsed_data.risk = WrittenRisk(report_run.table)
        /\ parsed_data.portfolio = WrittenPortfolio(report_run.table)
        /\ \A i \in 1..Len(parsed_data.prices) :
              /\ HasDecimals(parsed_data.prices[i].Open, 4)
              /\ HasDecimals(parsed_data.prices[i].Close, 4)
        /\ \A i \in 1..Len(parsed_data.risk) :
              /\ IsPercent(parsed_data.risk[i].Volatility, 2)
              /\ IsPercent(parsed_data.risk[i].MaxDrawdown, 2)
        /\ \A i \in 1..Len(report_run.lines) :
              IsDataLine(report_run.lines[i])
                  => Len(split(report_run.lines[i], "|")) = 3
        /\ Cardinality({i \in 1..Len(report_run.lines) : IsDataLine(report_run.lines[i])})
              = 2 * Len(report_run.table.columns) + 1

\* a report of three symbols was parsed, with a price wider than its field
\* and a volatility that is not a number
C17_Witness ==
    /\ ParsedWritten
    /\ Len(parsed_data.prices) = 3
    /\ \E i \in 1..3 : Len(parsed_data.prices[i].Open) > 10
    /\ \E i \in 1..3 : parsed_data.risk[i].Volatility = <<"n", "a", "n", "%">>
    /\ \E i \in 1..3 : parsed_data.prices[i].Close = <<"1", "0", ".", "0", "0", "0", "0">>

\* the downside deviation of the series is exactly 0
ZeroDownsideDeviation == Variance(downside_returns(series.values)) = Zero

\* the standard deviation of the series, and of its excess returns, is exactly 0
ZeroDeviation == Variance(series.values) = Zero

\* C18: every Sharpe and Sortino implementation returns exactly 0.0, without
\* raising, when the relevant standard deviation is exactly 0:
\* calculate_sharpe_ratio and _sharpe on the standard deviation of the returns,
\* calculate_sortino_ratio on the standard deviation of the negative returns.
C18_ZeroOnZeroDeviation ==
    /\ (metrics.called >= 1 /\ ZeroDeviation) => metrics.sharpe = Return(Zero)
    /\ (metrics.called >= 2 /\ ZeroDownsideDeviation) => metrics.sortino = Return(Zero)
    /\ (metrics.called >= 3 /\ ZeroDeviation) => metrics.local_sharpe = Return(Zero)

\* the largest of the values up to t
PeakUpTo(values, t) ==
    CHOOSE peak \in {values[i] : i \in 1..t} :
        \A i \in 1..t : FGe(peak, values[i])

\* the series is not empty and all its values are positive
PositiveSeries ==
    /\ Len(series.values) > 0
    /\ \A i \in 1..Len(series.values) : FGt(series.values[i], Zero)

NonDecreasing ==
    \A i \in 1..(Len(series.values) - 1) : FGe(series.values[i + 1], series.values[i])

\* the value is the smallest of value[t] / peak[t] - 1 over the series
IsLargestDecline(value) ==
    /\ \E t \in 1..Len(series.values) :
          value = FSub(FDiv(series.values[t], PeakUpTo(series.values, t)), One)
    /\ \A t \in 1..Len(series.values) :
          FGe(FSub(FDiv(series.values[t], PeakUpTo(series.values, t)), One), value)

IsMaxDrawdown(result) ==
    /\ result.kind = "return"
    /\ IsLargestDecline(result.value)
    /\ FGe(Zero, result.value)
    /\ NonDecreasing => result.value = Zero

\* C19: on a non-empty series of positive values the max drawdown, of the
\* metrics library and of the portfolio engine, is the minimum over t of
\* value[t] / (running maximum up to t) - 1; it is at most 0, and exactly 0
\* when the series never decreases.
C19_MaxDrawdown ==
    /\ (metrics.called >= 4 /\ PositiveSeries) => IsMaxDrawdown(metrics.max_drawdown)
    /\ (metrics.called >= 5 /\ PositiveSeries) => IsMaxDrawdown(metrics.local_max_drawdown)

\* the series 1, 1.1, 1.05, 1.2, whose max drawdown is 1.05 / 1.1 - 1
C19_Witness ==
    /\ metrics.called = 5
    /\ series.values = <<One, <<11, 10>>, <<21, 20>>, <<6, 5>>>>
    /\ metrics.max_drawdown = Return(<<-1, 22>>)
    /\ metrics.local_max_drawdown = Return(<<-1, 22>>)

EmptySeries == Len(series.values) = 0

C21_InputUnchanged ==
    pc \in {"momentum", "adx"} => df = params.frame

\* the sum of the closes of the bars lo..hi of the price table
RECURSIVE CloseSum(_, _)
CloseSum(lo, hi) == IF lo > hi THEN 0 ELSE CloseSum(lo, hi - 1) + df[hi].Close

\* both moving averages are defined at bar t and the short one is the greater:
\* sum(short) / short > sum(long) / long, in whole numbers
ShortAboveLong(t) ==
    /\ t >= params.short_window
    /\ t >= params.long_window
    /\ CloseSum(t - params.short_window + 1, t) * params.long_window
          > CloseSum(t - params.long_window + 1, t) * params.short_window

\* the bars from long_window on (the bar of index long_window - 1 is the
\* long_window-th bar), in order
BarsFrom(first, last) == [k \in 1..(IF last < first THEN 0 ELSE last - first + 1) |-> first + k - 1]

\* C23: momentum backtest.  The signal of bar t is 1.0 exactly when the short
\* moving average at t is greater than the long one at t, and 0.0 otherwise,
\* also while an average is undefined; with long_window >= 2 the returned
\* equity curve has exactly the bars from index long_window - 1 on, which are
\* the bars on which the return, both averages and the lagged signal are defined.
C23_MomentumSignalAndBars ==
    (pc = "momentum" /\ params.long_window >= 2) =>
        /\ \A t \in 1..Len(df) :
              df_strat.Signal[t] = IF ShortAboveLong(t) THEN One ELSE Zero
        /\ cum_strat.index = BarsFrom(params.long_window, Len(df))
        /\ \A t \in 1..Len(df) :
              (\E k \in 1..Len(cum_strat.index) : cum_strat.index[k] = t)
                  <=> /\ ~IsNaN(df_strat.Returns[t])
                      /\ ~IsNaN(df_strat.Short_SMA[t])
                      /\ ~IsNaN(df_strat.Long_SMA[t])
                      /\ ~IsNaN(shift(df_strat.Signal)[t])

\* three bars, windows 1 and 2: the first bar is dropped, the signal is 0.0 on
\* it and 1.0 on a later bar
C23_Witness ==
    /\ pc = "momentum"
    /\ Len(df) = 3
    /\ params.long_window = 2
    /\ df_strat.Signal[1] = Zero
    /\ \E t \in 2..3 : df_strat.Signal[t] = One
    /\ cum_strat.index = <<2, 3>>

\* the signal of bar t is only held: neither the entry nor the exit fires
HeldBar(t) == IsNaN(df_strat.Signal_Trigger[t])

\* the return, the indicators and the lagged signal of bar t are defined
DefinedBar(t) ==
    /\ ~IsNaN(df_strat.Returns[t])
    /\ ~IsNaN(df_strat.ADX[t])
    /\ ~IsNaN(df_strat.DI_plus[t])
    /\ ~IsNaN(df_strat.DI_minus[t])
    /\ ~IsNaN(shift(df_strat.Signal)[t])

InCurve(t) == \E k \in 1..Len(cum_strat.index) : cum_strat.index[k] = t

\* C26: the ADX equity curve keeps every bar on which the return, the
\* indicators and the lagged signal are defined; a bar on which the signal is
\* only held stays in the curve and is not removed from the result.
C26_HeldBarsKept ==
    pc = "adx" => \A t \in 1..Len(df) : DefinedBar(t) => InCurve(t)

\* the closing price of bar t
ClosePrice(t) == df[t].Close

\* the sum of the absolute moves of the closing price over the bars lo..hi
RECURSIVE PathLength(_, _)
PathLength(lo, hi) ==
    IF lo > hi THEN 0 ELSE PathLength(lo, hi - 1) + Abs(ClosePrice(hi) - ClosePrice(hi - 1))

\* the net move of the closing price over the last `period` bars
LastChange == Abs(ClosePrice(Len(df)) - ClosePrice(Len(df) - params.period))

LastPath == PathLength(Len(df) - params.period + 1, Len(df))

\* the ratio at the most recent price is a number
RatioDefined == Len(df) > params.period /\ LastPath > 0

\* C22: the regime classifier evaluates the efficiency ratio at the most recent
\* price only (net move over the path length of the last period bars) and
\* recommends Momentum when that ratio is above 0.3 and ADX when it is at or
\* below 0.3.
C22_RegimeAtLastPrice ==
    (pc = "kaufman" /\ RatioDefined) =>
        /\ params.er = Norm(LastChange, LastPath)
        /\ 10 * LastChange > 3 * LastPath =>
              params.reco_strat = "Momentum (Trend)" /\ params.reco_index = 0
        /\ 10 * LastChange <= 3 * LastPath =>
              params.reco_strat = "ADX (Trend Strength)" /\ params.reco_index = 1

\* a ratio of exactly 0.3 at the last price, after a first bar without a ratio
C22_Witness ==
    /\ pc = "kaufman"
    /\ RatioDefined
    /\ 10 * LastChange = 3 * LastPath
    /\ params.reco_strat = "ADX (Trend Strength)"

\* a rebalance date lies on or before date d
RebalancedBy(d) == \E a \in Range(rebal_log) : a <= d

\* C24: the weight schedule holds the dates of the table that have a rebalance
\* date on or before them, and the weight row of every such date is the vector
\* assigned at the latest rebalance date on or before it; at a date that is not
\* a rebalance date the row is the one of the date before, whatever the returns.
C24_WeightsHeld ==
    Backtested =>
        /\ Range(backtest.weights_ts.index) = {d \in Range(returns.index) : RebalancedBy(d)}
        /\ \A k \in 1..Len(backtest.weights_ts.rows) : \A i \in 1..Len(Tickers) :
              backtest.weights_ts.rows[k][i] = ExpectedWeights[i]
        /\ \A k \in 2..Len(backtest.weights_ts.rows) :
              backtest.weights_ts.index[k] \notin Range(rebal_log) =>
                  backtest.weights_ts.rows[k] = backtest.weights_ts.rows[k-1]

\* C24 witness: weekly rebalancing with unequal custom weights, a date held
\* between two rebalance dates while the returns of the symbols differ.
C24_Witness ==
    /\ Backtested
    /\ request.rebalance = "W"
    /\ request.weight_mode = "custom"
    /\ \E i, j \in 1..Len(Tickers) : ClampedInput(i) > ClampedInput(j) /\ ClampedInput(j) > 0
    /\ Len(backtest.weights_ts.index) = 3
    /\ backtest.weights_ts.index[1] \in Range(rebal_log)
    /\ backtest.weights_ts.index[2] \notin Range(rebal_log)
    /\ backtest.weights_ts.index[3] \in Range(rebal_log)
    /\ returns.rows[2] # returns.rows[1]

\* the position in the return table of the k-th date of the weight schedule
TablePosition(k) ==
    CHOOSE t \in 1..Len(returns.index) : returns.index[t] = backtest.weights_ts.index[k]

\* weight times return of the first i symbols at the k-th date of the schedule
RECURSIVE WeightedReturn(_, _)
WeightedReturn(k, i) ==
    IF i = 0 THEN Zero
    ELSE FAdd(WeightedReturn(k, i - 1),
              FMul(backtest.weights_ts.rows[k][i], returns.rows[TablePosition(k)][i]))

\* the product of (1 + portfolio return) over the first k dates, from base 1.0
RECURSIVE GrowthProduct(_)
GrowthProduct(k) ==
    IF k = 0 THEN One
    ELSE FMul(GrowthProduct(k - 1), FAdd(One, backtest.port_rets.values[k]))

\* C25: at every date of the weight schedule the portfolio return is the sum
\* over symbols of weight times that symbol's return at that date, and the
\* portfolio value at date t is the product of (1 + portfolio return) over all
\* dates up to and including t, starting from base 1.0.
C25_ReturnsAndValue ==
    Backtested =>
        /\ backtest.port_rets.index = backtest.weights_ts.index
        /\ backtest.port_val.index = backtest.weights_ts.index
        /\ \A k \in 1..Len(backtest.weights_ts.index) :
              /\ backtest.port_rets.values[k] = WeightedReturn(k, Len(Tickers))
              /\ backtest.port_val.values[k] = GrowthProduct(k)

\* C25 witness: unequal custom weights over several dates with a gain and a
\* loss, so that the value moves away from the base and back towards it.
C25_Witness ==
    /\ Backtested
    /\ request.weight_mode = "custom"
    /\ \E i, j \in 1..Len(Tickers) : ClampedInput(i) > ClampedInput(j) /\ ClampedInput(j) > 0
    /\ Len(backtest.port_val.values) = 3
    /\ \E j, k \in 1..3 : /\ FGt(backtest.port_rets.values[j], Zero)
                          /\ FGt(Zero, backtest.port_rets.values[k])
    /\ backtest.port_val.values[3] # One

Frequencies == {"none", "W", "M"}

\* the weight schedule of the same table, weight mode and user weights under
\* rebalance frequency f
ScheduleUnder(f) == _backtest_portfolio(returns, [request EXCEPT !.rebalance = f]).weights_ts

\* C27: for a fixed weight mode and fixed user weights, the weight row is the
\* same vector at every date kept in the weight schedule, whatever the rebalance
\* frequency: the frequency changes which dates are kept, not a weight.
C27_FrequencyKeepsWeights ==
    Backtested =>
        /\ Range(backtest.weights_ts.index) \subseteq Range(returns.index)
        /\ \A f \in Frequencies : \A row \in Range(ScheduleUnder(f).rows) :
              \A k \in 1..Len(backtest.weights_ts.rows) : backtest.weights_ts.rows[k] = row

\* C27 witness: weekly rebalancing with unequal custom weights keeps fewer dates
\* than no rebalancing does, over two rebalance dates.
C27_Witness ==
    /\ Backtested
    /\ request.rebalance = "W"
    /\ request.weight_mode = "custom"
    /\ \E i, j \in 1..Len(Tickers) : ClampedInput(i) > ClampedInput(j) /\ ClampedInput(j) > 0
    /\ Len(backtest.weights_ts.index) = 2
    /\ Len(ScheduleUnder("none").index) = 3
    /\ Cardinality(Range(rebal_log)) = 2

\* the time at which the provider was contacted for the table a load returned
FetchedAt(s) == downloads[call[s].value].start

\* C28: in the portfolio path, every price table returned by _load_prices_cached
\* was fetched from the external provider at most 300 seconds before it is
\* returned.
C28_FetchedWithinTtl ==
    \A s \in Sessions :
        (Loaded(s) /\ call[s].page = "quant_b") => call[s].returned - FetchedAt(s) <= ttl

\* download i raised, and get_financial_data has stored the empty table it
\* returned for it
FailedFetch(i) == downloads[i].raised /\ downloads[i].written >= 0

\* a load of get_financial_data's result that returned from the cache in which
\* download i was stored (no Refresh in between), before that entry expired
ServedInWindowOf(s, i) ==
    /\ Loaded(s)
    /\ call[s].key = downloads[i].key
    /\ call[s].gen = downloads[i].gen
    /\ downloads[i].done_gen = downloads[i].gen
    /\ call[s].returned >= downloads[i].written
    /\ call[s].returned - downloads[i].written < ttl
    /\ call[s].page = "quant_a"

\* C29: a failed fetch is cached like a successful one.  After get_financial_data
\* has returned the empty table for a key because the download raised, a later
\* call with the same key returns that empty table, and the provider is not
\* contacted again for the key, until the entry is 300 seconds old or a Refresh
\* is pressed.
C29_FailedFetchCached ==
    \A i \in DOMAIN downloads :
        FailedFetch(i) =>
            /\ \A j \in DOMAIN downloads :
                  (i < j /\ SameWindow(i, j)) =>
                      downloads[j].start - downloads[i].written >= ttl
            /\ \A s \in Sessions : ServedInWindowOf(s, i) => call[s].value = i

\* C29 witness: the download of a key raised, and a later run has been handed the
\* empty table of that download from the cache, with no second download.
C29_Witness ==
    \E i \in DOMAIN downloads : \E s \in Sessions :
        /\ FailedFetch(i)
        /\ ServedInWindowOf(s, i)
        /\ call[s].returned > downloads[i].written
        /\ call[s].value = i
        /\ Len(downloads) = 1

\* the series, taken as daily returns, opens with a loss
FirstReturnNegative == Len(series.values) > 0 /\ FGt(Zero, series.values[1])

\* C30: a max drawdown computed from a return series measures the decline from
\* the starting base value 1.0: when the first return is negative, the max
\* drawdown of the report and the one of the portfolio's value series are at
\* most that first return.
C30_FirstLossCounted ==
    FirstReturnNegative =>
        /\ metrics.called >= 6 => FGe(series.values[1], metrics.report_max_drawdown.value)
        /\ metrics.called >= 7 => FGe(series.values[1], metrics.portfolio_max_drawdown.value)

=============================================================================
